---------------------------- MODULE Spec2Model ----------------------------
(***************************************************************************)
(* A model of the kctools tape decoding pipeline.                          *)
(*                                                                         *)
(*   SpecECC    PerLine.CreateECCTable, one step per loop, and a lookup    *)
(*   SpecChunk  PerLine.DecodeChunk applied to synthetic chunks            *)
(*   Spec       kcconvert: KCFile.Process and PerLine.Process, one step    *)
(*              per input line and per character of a data line            *)
(*   SpecPulse  kcdecode: PerTransition.Process, one step per event        *)
(*   SpecSample kcdecode: PerSample.Process, one step per sample            *)
(*   SpecMem    kcutils: MCMemoryMap, one step per write                    *)
(*   SpecMap    kcmapmemory: the memory map is filled, aligned, written to *)
(*              a BIN+CFG file pair and read back, one step per call       *)
(*   SpecVerify kcverify: PerLine.Process on a data line and then on the   *)
(*              line it wrote, one step per character                      *)
(*   SpecTap    kctap2wav: KCFile.Process, one step per read, per call of  *)
(*              Handle and per frame written                               *)
(*                                                                         *)
(* Python integers are unbounded.  The 37-bit row accumulator of the       *)
(* framer is kept as the sequence of the bits shifted in since it was last *)
(* set to 0, most significant first; every other integer is an integer.    *)
(* Sample positions (ifrac, delta, samples per bit) are kept in            *)
(* thousandths of a sample, and thresholds are compared exactly.  The      *)
(* samples kept by PerSample are kept multiplied by the length of the DC   *)
(* window, which makes them integers; the lengths used are powers of two,  *)
(* for which the floating point arithmetic of the program is exact.        *)
(***************************************************************************)
EXTENDS Integers, Sequences, FiniteSets, TLC

VARIABLES
    \* PerLine.CreateECCTable (kcconvert.py 20-57)
    ecc,              \* self.ecc while it is built: a dict, code -> <<status, fixed_code>>
    correct_keys,     \* list(self.ecc.keys()): the keys in insertion order
    ecc_pc,           \* the loop to run next, "correct" | "single" | "default", then
                      \* "done" and, after a lookup, "read"
    ecc_read,         \* the last lookup t = self.ecc[code], as <<code, t>>; << >> if none
    \* PerLine.DecodeChunk on a synthetic chunk
    ck_input,         \* the chunk drawn: its data words and the injected bit flips
    ck_rows,          \* row_array handed to DecodeChunk
    ck_result,        \* what DecodeChunk did: its return value or the exit
    \* kcconvert: KCFile.Process / PerLine.Process
    pc,               \* the next input line, "cmds" | "args" | "time" | "data", or
                      \* "line" (in the for c loop of PerLine.Process) or "exit"
    nlines,           \* data lines read so far
    rich,             \* whether a line outside LeadLines has been read
    seg,              \* how the data line being processed was made up
    line,             \* the argument of PerLine.Process: the text after "data "
    c_count, state, zero_count, counting_zeros, sync_pattern,
    char_count, row_count, chunk_count, row, row_array,
    fpout,            \* self.fpout: 0, or the number of the record file open for writing
    record,           \* self.record
    outfile,          \* the lines written to args.outfile
    files,            \* the record files: record number -> bytes
    console,          \* what print() wrote
    \* kcdecode: PerTransition
    last_ifrac, expecting_short, num_deltas, total_deltas,
    measure,          \* args.measure
    nominal_samples_per_bit,
    pulse_out,        \* what PerTransition and PerBit wrote to args.outfile
    interval,         \* the classification of the last interval ("" when none)
    delta,            \* the last interval, in thousandths of a sample
    ifrac,            \* the position of the last event, in thousandths of a sample
    printed,          \* what measure mode printed: <<total_deltas, num_deltas>>
    energy,           \* the energy of the last event, as the fraction [num, den]
    nevents,          \* events handed to PerTransition.Process so far
    \* kcdecode: PerSample
    energy_window,
    sample_buffer,    \* self.sample_buffer, each sample times SampleScale
    dcwindow_samples,
    smp_i,            \* the frame index i of the next sample (KCFile.Process)
    handed,           \* the arguments of the call self.pertransition.Process(energy, ifrac)
                      \* made for the last sample: <<energy times SampleScale, ifrac in
                      \* thousandths>>, or << >> if no call was made
    \* kcutils: MCMemoryMap
    mem_canOverwrite, \* self._canOverwrite
    mem_data,         \* self._data
    mem_state,        \* self._state
    mem_pc,           \* "run", "exit" after errorExit, "raise" after an exception
    mem_op,           \* the last call of writeWord: its arguments and its caller
    \* kcutils: BinCfgFilePair
    map_pc,           \* kcmapmemory.main: "fill", then "aligned", "written", "read"
    bin_file,         \* the bytes of the BIN file
    cfg_file,         \* the lines writeMappingSection wrote to the CFG file
    rd_map,           \* the MCMemoryMap of the run that reads the pair back
    \* kctap2wav: KCFile.Process
    rawdata,          \* the two bytes read last
    tap_h,            \* the calls of Handle made for rawdata: 0 .. 8; 9 once the
                      \* frame is written
    tap_n,            \* the reads of two bytes made so far
    sign0, sign1, data0, data1,
    wav_frames,       \* the bytes handed to ww.writeframes
    \* kcverify: the passes over a data line
    v_pass,           \* 1 while the input line is processed, 2 while the line
                      \* written by pass 1 is processed
    v_first           \* the characters written to args.outfile by pass 1

eccVars   == <<ecc, correct_keys, ecc_pc, ecc_read>>
chunkVars == <<ck_input, ck_rows, ck_result>>
lineVars  == <<line, c_count, state, zero_count, counting_zeros, sync_pattern,
               char_count, row_count, chunk_count, row, row_array>>
convVars  == <<pc, nlines, rich, seg, lineVars, fpout, record, outfile, files, console>>
pulseVars == <<last_ifrac, expecting_short, num_deltas, total_deltas, measure,
               nominal_samples_per_bit, pulse_out, interval, delta, ifrac, printed,
               energy, nevents>>
sampleVars == <<energy_window, sample_buffer, dcwindow_samples, smp_i, handed>>
fileVars  == <<map_pc, bin_file, cfg_file, rd_map>>
memVars   == <<mem_canOverwrite, mem_data, mem_state, mem_pc, mem_op, fileVars>>
tapVars   == <<rawdata, tap_h, tap_n, sign0, sign1, data0, data1, wav_frames>>
verifyVars == <<v_pass, v_first>>
toolVars  == <<tapVars, verifyVars>>
vars      == <<eccVars, chunkVars, convVars, pulseVars, sampleVars, memVars, toolVars>>

notECC    == <<chunkVars, convVars, pulseVars, sampleVars, memVars, toolVars>>
notChunk  == <<eccVars, convVars, pulseVars, sampleVars, memVars, toolVars>>
notConv   == <<eccVars, chunkVars, pulseVars, sampleVars, memVars, toolVars>>
notPulse  == <<eccVars, chunkVars, convVars, sampleVars, memVars, toolVars>>
notMem    == <<eccVars, chunkVars, convVars, pulseVars, sampleVars, toolVars>>
notTap    == <<eccVars, chunkVars, convVars, pulseVars, sampleVars, memVars, verifyVars>>
notVerify == <<eccVars, chunkVars, pulseVars, sampleVars, memVars, tapVars>>

-----------------------------------------------------------------------------
(* Python's integer operators on non-negative integers.                    *)

RECURSIVE BitXor(_, _)
BitXor(a, b) ==
    IF a = 0 THEN b
    ELSE IF b = 0 THEN a
    ELSE ((a + b) % 2) + 2 * BitXor(a \div 2, b \div 2)

RECURSIVE BitAnd(_, _)
BitAnd(a, b) ==
    IF a = 0 \/ b = 0 THEN 0
    ELSE ((a % 2) * (b % 2)) + 2 * BitAnd(a \div 2, b \div 2)

RECURSIVE BitOr(_, _)
BitOr(a, b) ==
    IF a = 0 THEN b
    ELSE IF b = 0 THEN a
    ELSE (IF a % 2 = 1 \/ b % 2 = 1 THEN 1 ELSE 0) + 2 * BitOr(a \div 2, b \div 2)

ShiftLeft(a, n)  == a * 2^n
ShiftRight(a, n) == a \div 2^n

RECURSIVE PopCount(_)
PopCount(a) == IF a = 0 THEN 0 ELSE (a % 2) + PopCount(a \div 2)

HammingDistance(a, b) == PopCount(BitXor(a, b))

(* A Python dict as a function on its set of keys.                         *)
DictSet(d, key, val) == (key :> val) @@ d

-----------------------------------------------------------------------------
(* PerLine.CreateECCTable                                                  *)

low_syndrome ==
    << 0, 13, 26, 23, 21, 24, 15,  2,
      11,  6, 17, 28, 30, 19,  4,  9,
      22, 27, 12,  1,  3, 14, 25, 20,
      29, 16,  7, 10,  8,  5, 18, 31>>

high_syndrome ==
    << 0, 19,  7, 20, 14, 29,  9, 26,
      28, 15, 27,  8, 18,  1, 21,  6,
      25, 10, 30, 13, 23,  4, 16,  3,
       5, 22,  2, 17, 11, 24, 12, 31>>

NumData  == 1024
NumBits  == 15
NumCodes == 32768

Valid         == 1
Corrected     == 2
Unrecoverable == 0

\* the syndrome with the two tables exchanged
SyndromeSwapped(i) ==
    BitXor(low_syndrome[BitAnd(ShiftRight(i, 5), 31) + 1],
           high_syndrome[BitAnd(i, 31) + 1])

\* the syndrome of the low five data bits alone
SyndromeLowOnly(i) == low_syndrome[BitAnd(i, 31) + 1]

\* the syndrome without its top bit
SyndromeFourBits(i) ==
    BitAnd(BitXor(high_syndrome[BitAnd(ShiftRight(i, 5), 31) + 1],
                  low_syndrome[BitAnd(i, 31) + 1]), 15)

\* high_syndrome[(i>>5)&0x1f] ^ low_syndrome[i&0x1f]
Syndrome(i) ==
    BitXor(high_syndrome[BitAnd(ShiftRight(i, 5), 31) + 1],
           low_syndrome[BitAnd(i, 31) + 1])

\* code = i | (syndrome) << 10
CodeWord(i) == BitOr(i, ShiftLeft(Syndrome(i), 10))

\* one bit position too many: range(0,16)
BadBitsSixteen == 0 .. NumBits

\* range(0,15)
BadBits == 0 .. (NumBits - 1)

\* the entry records the damaged code instead of the code it came from
SingleBitEntryUnfixed(k, bad_code) == <<Corrected, bad_code>>

\* (2,k)
SingleBitEntry(k, bad_code) == <<Corrected, k>>

(* self.ecc, a dict whose keys are codes, is kept in pages: the page of a  *)
(* code is code >> 10, its syndrome bits, and a page maps code & 0x3ff, the *)
(* data bits, to the entry.  A page exists once one of its codes is a key. *)
TablePage(key)   == key \div NumData
TableOffset(key) == key % NumData

\* key in self.ecc
TableHas(d, key) ==
    /\ TablePage(key) \in DOMAIN d
    /\ TableOffset(key) \in DOMAIN d[TablePage(key)]

\* self.ecc[key], for a key of self.ecc
TableGet(d, key) == d[TablePage(key)][TableOffset(key)]

\* self.ecc[key] = val
TableSet(d, key, val) ==
    IF TablePage(key) \in DOMAIN d
    THEN [d EXCEPT ![TablePage(key)] = (TableOffset(key) :> val) @@ @]
    ELSE (TablePage(key) :> (TableOffset(key) :> val)) @@ d

\* self.ecc.keys(), as a set
TableKeys(d) == UNION {{p * NumData + o : o \in DOMAIN d[p]} : p \in DOMAIN d}

(* The loops of CreateECCTable.  A range of iterations is run by halves,   *)
(* and a value bound through a one-element set is computed once.           *)

\* iterations i .. n-1 of: for i in range(0,1024): ... self.ecc[code] = (1,code)
\* on the pair <<self.ecc, its keys in insertion order>>
RECURSIVE AddCorrectCodes(_, _, _)
AddCorrectCodes(ek, i, n) ==
    IF i >= n THEN ek
    ELSE IF n = i + 1
    THEN CHOOSE r \in
            {<<TableSet(ek[1], code, <<Valid, code>>),
               IF TableHas(ek[1], code) THEN ek[2] ELSE Append(ek[2], code)>> :
                code \in {CodeWord(i)}} : TRUE
    ELSE CHOOSE r \in
            {AddCorrectCodes(ek1, (i + n) \div 2, n) :
                ek1 \in {AddCorrectCodes(ek, i, (i + n) \div 2)}} : TRUE

\* for bad_bit in range(0,15): self.ecc[k ^ (1<<bad_bit)] = (2,k)
RECURSIVE AddSingleBitErrors(_, _, _)
AddSingleBitErrors(e, k, bad_bit) ==
    IF bad_bit \notin BadBits THEN e
    ELSE CHOOSE r \in
            {AddSingleBitErrors(TableSet(e, bad_code, SingleBitEntry(k, bad_code)),
                                k, bad_bit + 1) :
                bad_code \in {BitXor(k, ShiftLeft(1, bad_bit))}} : TRUE

\* iterations i .. n-1 of: for k in correct_keys: for bad_bit in range(0,15): ...
RECURSIVE AddSingleKeys(_, _, _, _)
AddSingleKeys(e, keys, i, n) ==
    IF i >= n THEN e
    ELSE IF n = i + 1 THEN AddSingleBitErrors(e, keys[n], 0)
    ELSE CHOOSE r \in
            {AddSingleKeys(e1, keys, (i + n) \div 2, n) :
                e1 \in {AddSingleKeys(e, keys, i, (i + n) \div 2)}} : TRUE

\* for i in range(0,32768): if self.ecc.get(i) == None: self.ecc[i] = (0,0)
AddDefaults(e) ==
    [p \in (DOMAIN e) \cup (0 .. (TablePage(NumCodes) - 1)) |->
        [o \in (IF p \in DOMAIN e THEN DOMAIN e[p] ELSE {})
               \cup (IF p < TablePage(NumCodes) THEN 0 .. (NumData - 1) ELSE {}) |->
            IF p \in DOMAIN e /\ o \in DOMAIN e[p] THEN e[p][o] ELSE <<Unrecoverable, 0>>]]

ECCInit ==
    /\ ecc = << >>
    /\ correct_keys = << >>
    /\ ecc_pc = "correct"
    /\ ecc_read = << >>

\* first, add correct codes: the loop over range(0,1024), and
\* correct_keys = list(self.ecc.keys())
AddCorrect ==
    /\ ecc_pc = "correct"
    /\ \E ek \in {AddCorrectCodes(<<ecc, << >> >>, 0, NumData)} :
          /\ ecc' = ek[1]
          /\ correct_keys' = ek[2]
    /\ ecc_pc' = "single"
    /\ UNCHANGED <<ecc_read, notECC>>

\* now add single-bit errors: the loop over correct_keys
AddSingle ==
    /\ ecc_pc = "single"
    /\ ecc' = AddSingleKeys(ecc, correct_keys, 0, Len(correct_keys))
    /\ ecc_pc' = "default"
    /\ UNCHANGED <<correct_keys, ecc_read, notECC>>

\* the loop over range(0,32768)
FillDefaults ==
    /\ ecc_pc = "default"
    /\ ecc' = AddDefaults(ecc)
    /\ ecc_pc' = "done"
    /\ UNCHANGED <<correct_keys, ecc_read, notECC>>

\* the codes looked up: the first and the last correct code and every code
\* one or two bits from them
ProbeCodes ==
    {BitXor(BitXor(CodeWord(i), m * 2^a), n * 2^b) :
        i \in {0, NumData - 1}, a \in 0 .. (NumBits - 1), b \in 0 .. (NumBits - 1),
        m \in {0, 1}, n \in {0, 1}}

\* a lookup that stores what it found, as dict.setdefault would
TableAfterLookupStored(e, code) == TableSet(e, code, <<Corrected, code>>)

\* self.ecc after t = self.ecc[column_array[i]]: indexing a dict stores nothing
TableAfterLookup(e, code) == e

\* the codes looked up after the first: a Valid one and a Corrected one
LaterCodes == {0, 1}

\* DecodeChunk: t = self.ecc[column_array[i]], for one column value; the
\* lookups of a run follow one another until one finds status 0 (sys.exit)
Lookup ==
    /\ \/ ecc_pc = "done"
       \/ ecc_pc = "read" /\ ecc_read[2][1] # Unrecoverable
    /\ \E code \in IF ecc_pc = "done" THEN ProbeCodes ELSE LaterCodes :
          /\ ecc_read' = <<code, TableGet(ecc, code)>>
          /\ ecc' = TableAfterLookup(ecc, code)
    /\ ecc_pc' = "read"
    /\ UNCHANGED <<correct_keys, notECC>>

ECCNext == AddCorrect \/ AddSingle \/ FillDefaults \/ Lookup

(* self.ecc as CreateECCTable leaves it.  An entry written in the second   *)
(* loop overwrites whatever the code held, and among the keys k that write *)
(* a code the last in correct_keys order wins; keys are inserted in        *)
(* increasing order of their data bits.                                    *)
\* (<< >> @@ f is f; it makes TLC tabulate the function)
CodeTable == << >> @@ [i \in 0 .. (NumData - 1) |-> CodeWord(i)]

IsCorrectKey(x) == x < NumCodes /\ CodeTable[x % NumData] = x

\* c ^ (1<<b), for one bit
FlipBit(c, b) == IF (c \div 2^b) % 2 = 1 THEN c - 2^b ELSE c + 2^b

Writers(c) == {k \in {FlipBit(c, b) : b \in BadBits} : IsCorrectKey(k)}

LastWriter(w) == CHOOSE k \in w : \A o \in w : o % NumData <= k % NumData

ECCTable ==
    [c \in 0 .. (NumCodes - 1) |->
        LET w == Writers(c)
        IN  IF w # {} THEN SingleBitEntry(LastWriter(w), c)
            ELSE IF IsCorrectKey(c) THEN <<Valid, c>>
            ELSE <<Unrecoverable, 0>>]

-----------------------------------------------------------------------------
(* PerLine.DecodeChunk                                                     *)

NumRows == 15
NumCols == 32

\* bit b of the integer whose binary digits, most significant first, are r
RowBit(r, b) == IF b < Len(r) THEN r[Len(r) - b] ELSE 0

\* column j is read from bit j of the rows
RECURSIVE ColumnValueMirrored(_, _, _)
ColumnValueMirrored(rows, j, n) ==
    IF n = 0 THEN 0
    ELSE ColumnValueMirrored(rows, j, n - 1) * 2 + RowBit(rows[n], j)

\* the rows are read last row first: the last row supplies the top bit
RECURSIVE ColumnValueReversed(_, _, _)
ColumnValueReversed(rows, j, n) ==
    IF n = 0 THEN 0
    ELSE ColumnValueReversed(rows, j, n - 1) + RowBit(rows[n], 31 - j) * 2^(n - 1)

\* for row in row_array: column_array[j] = column_array[j]*2 + ((row >> (31-j))&1)
\* taken over the first n rows
RECURSIVE ColumnValue(_, _, _)
ColumnValue(rows, j, n) ==
    IF n = 0 THEN 0
    ELSE ColumnValue(rows, j, n - 1) * 2 + RowBit(rows[n], 31 - j)

\* column_array after the first loop (index j+1 holds column j)
Transposed(rows) == [j \in 1 .. NumCols |-> ColumnValue(rows, j - 1, Len(rows))]

\* a damaged column is left as it was read
FixColumnKeep(t, col) == col

\* if t[0] == 2: column_array[i] = t[1]
FixColumn(t, col) == IF t[1] = Corrected THEN t[2] ELSE col

\* an unrecoverable column is passed on as it is
ColumnFatalNever(t) == FALSE

\* if t[0] == 0: print("Error!!"); sys.exit()
ColumnFatal(t) == t[1] = Unrecoverable

(* The second loop of DecodeChunk over column_array = cols.  It stops at   *)
(* the first column whose entry has status 0: "Error!!" is printed and the *)
(* program exits, nothing is returned.                                     *)
DecodeColumns(e, cols) ==
    LET fatal == {i \in 1 .. NumCols : ColumnFatal(e[cols[i]])}
    IN  IF fatal # {}
        THEN [exit |-> TRUE,
              at |-> (CHOOSE i \in fatal : \A o \in fatal : i <= o) - 1,
              column_array |-> << >>]
        ELSE [exit |-> FALSE,
              at |-> -1,
              column_array |-> [i \in 1 .. NumCols |-> FixColumn(e[cols[i]], cols[i])]]

(* DecodeChunk(row_array) with self.ecc = e.  (The transposed array is     *)
(* bound by a one-element set so that it is computed once.)                *)
DecodeChunk(e, rows) ==
    CHOOSE r \in {DecodeColumns(e, cols) : cols \in {Transposed(rows)}} : TRUE

\* val = column_array[j] & 0x3ff
DataWords(column_array) == [j \in 1 .. NumCols |-> BitAnd(column_array[j], 1023)]

(* Synthetic chunks: the 32 data words start, start+stride, ... (mod 1024) *)
(* are encoded through the forward table, one codeword per column, the     *)
(* first row holding the most significant codeword bit; then the codeword  *)
(* of column c is XORed with mask[c].                                      *)
MaxFlips  == 2
MaxStride == 2

DataStarts == {0, 682}
EdgeCols   == {0, 31}
Columns    == 0 .. (NumCols - 1)

NoFlips           == [c \in Columns |-> 0]
FlipOne(c0, m)    == [c \in Columns |-> IF c = c0 THEN m ELSE 0]
FlipEvery(shift)  == [c \in Columns |-> 2^((c + shift) % NumBits)]

RECURSIVE MaskOfBits(_)
MaskOfBits(S) == IF S = {} THEN 0 ELSE LET b == CHOOSE x \in S : TRUE
                                       IN  2^b + MaskOfBits(S \ {b})

\* the masks of 2 .. MaxFlips bits
MultiMasks ==
    {MaskOfBits(S) : S \in {T \in SUBSET (0 .. (NumBits - 1)) : Cardinality(T) \in 2 .. MaxFlips}}

ChunkInputs ==
    \* no error, every data word in every column
    {[start |-> a, stride |-> 1, mask |-> NoFlips] : a \in 0 .. (NumData - 1)}
    \cup
    {[start |-> a, stride |-> m, mask |-> NoFlips] : a \in DataStarts, m \in 0 .. MaxStride}
    \cup
    \* one bit flipped, any column, any bit
    {[start |-> a, stride |-> 1, mask |-> FlipOne(c, 2^b)] :
        a \in DataStarts, c \in Columns, b \in 0 .. (NumBits - 1)}
    \cup
    \* one bit flipped in every column
    {[start |-> a, stride |-> 1, mask |-> FlipEvery(a)] : a \in DataStarts}
    \cup
    \* two or more bits flipped in one column
    {[start |-> 682, stride |-> 1, mask |-> FlipOne(c, m)] : c \in EdgeCols, m \in MultiMasks}
    \cup
    {[start |-> 682, stride |-> 1, mask |-> FlipOne(c, 2^b + 2^((b + 1) % NumBits))] :
        c \in Columns, b \in {0, 7, 14}}

\* the data word of column j (0..31)
ChunkWord(inp, j) == (inp.start + inp.stride * j) % NumData

ChunkData(inp) == [j \in 1 .. NumCols |-> ChunkWord(inp, j - 1)]

\* the codeword put in column j (0..31)
ChunkCode(inp, j) == BitXor(CodeTable[ChunkWord(inp, j)], inp.mask[j])

ChunkCodes(inp) == [j \in 1 .. NumCols |-> ChunkCode(inp, j - 1)]

\* row k (1..15) holds bit 15-k of every column's codeword; column j is bit 31-j
RowsOfCodes(codes) ==
    [k \in 1 .. NumRows |-> [j \in 1 .. NumCols |-> (codes[j] \div 2^(NumRows - k)) % 2]]

ChunkRows(inp) == CHOOSE r \in {RowsOfCodes(codes) : codes \in {ChunkCodes(inp)}} : TRUE

ChunkInit ==
    /\ ck_input \in ChunkInputs
    /\ ck_rows = ChunkRows(ck_input)
    /\ ck_result = [called |-> FALSE]

CallDecodeChunk ==
    /\ ~ck_result.called
    /\ ck_result' = [called |-> TRUE] @@ DecodeChunk(ECCTable, ck_rows)
    /\ UNCHANGED <<ck_input, ck_rows, notChunk>>

ChunkNext == CallDecodeChunk

-----------------------------------------------------------------------------
(* kcconvert: the input lines                                              *)

\* the string sync_pattern is compared with
SyncPattern ==
    <<"0", "0", "0", "0", "0", "0", "0", "0", "0", "0", "0", "0", "0", "0", "0", "0",
       "0", "0", "0", "0", "0", "0", "0", "0", "0", "1", "1", "1", "1", "1", "1", "0",
       "0", "0", "0", "0", "0", "0", "0", "0", "0", "0", "0", "0", "0", "0", "0", "0",
       "0", "0", "0", "0", "0", "0", "0", "0", "1", "0", "1", "1", "1", "1", "0", "1",
       "0", "0", "0", "0", "0", "0", "0", "0", "0", "0", "0", "0", "0", "0", "0", "0",
       "0", "0", "0", "0", "0", "0", "0", "0", "1", "1", "0", "1", "1", "0", "1", "1",
       "0", "0", "0", "0", "0", "0", "0", "0", "0", "0", "0", "0", "0", "0", "0", "0",
       "0", "0", "0", "0", "0", "0", "0", "0", "1", "1", "1", "0", "0", "1", "1", "1" >>

SyncLen       == 128
RowLen        == 37
PreambleZeros == 25

GoodPrefix == <<"1", "1", "1", "0", "1">>
BadPrefix  == <<"1", "1", "1", "0", "0">>

MaxLines  == 2
MaxZeros  == 1
MaxChunks == 2

ChunkLen == RowLen * NumRows

Zeros(n) == [i \in 1 .. n |-> "0"]

(* A data line: zeros "0", then pre, then (if sync) the preamble, then     *)
(* nchunks chunks of 15 rows and tail further row characters, then post.   *)
(* Chunk q holds the data words start+32q, start+32q+1, ...; the codewords *)
(* of chunk flipchunk are XORed with mask; the rows in badrows (counted     *)
(* from 0 through the line) get the prefix 11100; then the row characters  *)
(* at the offsets in anom (counted from 0 after the preamble) are replaced *)
(* by the anomaly character "w".                                           *)
Clean(z, n) ==
    [zeros |-> z, pre |-> << >>, sync |-> TRUE, nchunks |-> n, tail |-> 0,
     start |-> 0, flipchunk |-> 0, mask |-> NoFlips, badrows |-> {}, anom |-> {},
     post |-> <<"e", "\n">>]

Unsynced(z) == [Clean(z, 0) EXCEPT !.sync = FALSE]

\* the lines that may precede and follow any other line of the input
LeadLines ==
    {Unsynced(z) : z \in 0 .. MaxZeros} \cup {[Clean(0, 1) EXCEPT !.start = 512]}

TailLens == {1, 37, 553, 554}

RichLines ==
    {Clean(z, n) : z \in 0 .. MaxZeros, n \in 0 .. MaxChunks}
    \cup
    {[Clean(0, 0) EXCEPT !.tail = t] : t \in TailLens}
    \cup
    {[Clean(0, MaxChunks) EXCEPT !.badrows = {r}] : r \in {0, NumRows - 1, NumRows, NumRows + 1}}
    \cup
    {[Clean(1, 1) EXCEPT !.flipchunk = 0, !.mask = m] :
        m \in {FlipOne(5, 8), FlipEvery(0), FlipOne(31, 3)}}
    \cup
    {[Clean(0, MaxChunks) EXCEPT !.flipchunk = 1, !.mask = FlipOne(0, 16384 + 1)]}
    \cup
    \* a character that is not "0" before the preamble
    {[Clean(0, 1) EXCEPT !.pre = <<"1">>], [Clean(1, 1) EXCEPT !.pre = <<"s">>]}
    \cup
    \* an anomaly character in the first row, where column 3 has a 1
    {[Clean(0, 1) EXCEPT !.anom = {8}]}
    \cup
    \* a second preamble after the first
    {[Clean(0, 0) EXCEPT !.post = SyncPattern \o <<"e", "\n">>]}

LineInputs == LeadLines \cup RichLines

\* the chunk input of chunk q (0, 1, ...) of the line
SegChunk(d, q) ==
    [start  |-> (d.start + NumCols * q) % NumData,
     stride |-> 1,
     mask   |-> IF q = d.flipchunk THEN d.mask ELSE NoFlips]

\* the row characters of the line, given the rows of its chunks
LineBody(d, rows) ==
    [n \in 1 .. (ChunkLen * d.nchunks + d.tail) |->
        LET q == (n - 1) \div ChunkLen
            r == ((n - 1) % ChunkLen) \div RowLen
            p == (n - 1) % RowLen
        IN  IF (n - 1) \in d.anom THEN "w"
            ELSE IF p < 5
            THEN (IF (q * NumRows + r) \in d.badrows THEN BadPrefix[p + 1] ELSE GoodPrefix[p + 1])
            ELSE IF rows[q + 1][r + 1][p - 4] = 1 THEN "1" ELSE "0"]

MakeLine(d) ==
    Zeros(d.zeros) \o d.pre \o (IF d.sync THEN SyncPattern ELSE << >>)
    \o (CHOOSE b \in {LineBody(d, rows) :
                        rows \in {[q \in 1 .. (d.nchunks + 1) |-> ChunkRows(SegChunk(d, q - 1))]}} : TRUE)
    \o d.post

-----------------------------------------------------------------------------
(* kcconvert: PerLine.Process and KCFile.Process                           *)

\* any 5 top bits pass
PrefixAny(r) == TRUE

\* (row & 0x1f00000000) == 0x1d00000000
PrefixOK(r) ==
    <<RowBit(r, 36), RowBit(r, 35), RowBit(r, 34), RowBit(r, 33), RowBit(r, 32)>>
        = <<1, 1, 1, 0, 1>>

\* the top 32 bits of the row
Top32(r) == [j \in 1 .. NumCols |-> RowBit(r, RowLen - j)]

\* row & 0xffffffff, as 32 bits
Low32(r) == [j \in 1 .. NumCols |-> RowBit(r, NumCols - j)]

\* low byte first
WordBytesLittle(val) == <<BitAnd(val, 255), ShiftRight(val, 8)>>

\* bytearray([val>>8, val&0xff])
WordBytes(val) == <<ShiftRight(val, 8), BitAnd(val, 255)>>

\* the whole codeword is written, not its low 10 bits
WordOfColumnRaw(col) == col

\* val = column_array[j]&0x3ff
WordOfColumn(col) == BitAnd(col, 1023)

\* the 64 bytes written for one chunk: for j in range(0,32): self.fpout.write(...)
ChunkBytes(column_array) ==
    [n \in 1 .. (2 * NumCols) |->
        WordBytes(WordOfColumn(column_array[(n + 1) \div 2]))[2 - (n % 2)]]

\* a record is opened for every chunk
MustOpenAlways(f) == TRUE

\* if self.fpout == 0
MustOpen(f) == f = 0

\* the record number is not advanced
NextRecordSame(r) == r

\* self.record = self.record + 1
NextRecord(r) == r + 1

ConvInit ==
    /\ pc = "cmds"
    /\ nlines = 0
    /\ rich = FALSE
    /\ seg = Unsynced(0)
    /\ line = << >>
    /\ c_count = 0
    /\ state = 0
    /\ zero_count = 0
    /\ counting_zeros = TRUE
    /\ sync_pattern = << >>
    /\ char_count = 0
    /\ row_count = 0
    /\ chunk_count = 0
    /\ row = << >>
    /\ row_array = << >>
    /\ fpout = 0
    /\ record = 1
    /\ outfile = << >>
    /\ files = << >>
    /\ console = << >>

\* KCFile.Process: a line that starts with cmds, args or time is copied
ReadCmds ==
    /\ pc = "cmds"
    /\ outfile' = Append(outfile, <<"cmds">>)
    /\ pc' = "args"
    /\ UNCHANGED <<nlines, rich, seg, lineVars, fpout, record, files, console, notConv>>

ReadArgs ==
    /\ pc = "args"
    /\ outfile' = Append(outfile, <<"args">>)
    /\ pc' = "time"
    /\ UNCHANGED <<nlines, rich, seg, lineVars, fpout, record, files, console, notConv>>

ReadTime ==
    /\ pc = "time"
    /\ nlines < MaxLines
    /\ outfile' = Append(outfile, <<"time", nlines + 1>>)
    /\ pc' = "data"
    /\ UNCHANGED <<nlines, rich, seg, lineVars, fpout, record, files, console, notConv>>

\* state is kept from the line before
StateAtStartKept(prev) == prev

\* state = 0
StateAtStart(prev) == 0

\* KCFile.Process: self.perline.Process(line[5:]), up to the for loop
ReadData ==
    /\ pc = "data"
    /\ \E d \in (IF rich THEN LeadLines ELSE LineInputs) :
          /\ seg' = d
          /\ line' = MakeLine(d)
          /\ rich' = (rich \/ d \notin LeadLines)
    /\ nlines' = nlines + 1
    /\ c_count' = 0
    /\ state' = StateAtStart(state)
    /\ zero_count' = 0
    /\ counting_zeros' = TRUE
    /\ sync_pattern' = << >>
    /\ char_count' = 0
    /\ row_count' = 0
    /\ chunk_count' = 0
    /\ row' = << >>
    /\ row_array' = << >>
    /\ pc' = "line"
    /\ UNCHANGED <<fpout, record, outfile, files, console, notConv>>

\* nothing is written when the preamble is recognised
SyncLinesNone(zc) == << >>

\* self.args.outfile.write('zero '+str(zero_count-25)+'\n')
SyncLines(zc) == << <<"zero", zc - PreambleZeros>> >>

\* one character of the line while state == 0
ScanChar ==
    /\ pc = "line"
    /\ c_count < Len(line)
    /\ state = 0
    /\ LET c   == line[c_count + 1]
           zc  == IF c = "0" /\ counting_zeros THEN zero_count + 1 ELSE zero_count
           sp0 == Append(sync_pattern, c)
           sp  == IF Len(sp0) > SyncLen THEN Tail(sp0) ELSE sp0
       IN  /\ zero_count' = zc
           /\ counting_zeros' = (counting_zeros /\ c = "0")
           /\ sync_pattern' = sp
           /\ IF sp = SyncPattern
              THEN /\ outfile' = outfile \o SyncLines(zc)
                   /\ state' = 1
                   /\ row' = << >>
                   /\ char_count' = 0
                   /\ row_count' = 0
                   /\ chunk_count' = 0
                   /\ row_array' = << >>
              ELSE UNCHANGED <<outfile, state, row, char_count, row_count,
                               chunk_count, row_array>>
    /\ c_count' = c_count + 1
    /\ UNCHANGED <<pc, nlines, rich, seg, line, fpout, record, files, console, notConv>>

\* the chunk is decoded one row early
ChunkCompleteEarly(rc) == rc = NumRows - 1

\* if row_count == 15
ChunkComplete(rc) == rc = NumRows

\* one character of the line while state == 1
RowChar ==
    /\ pc = "line"
    /\ c_count < Len(line)
    /\ state = 1
    /\ LET c    == line[c_count + 1]
           row1 == Append(row, IF c = "1" THEN 1 ELSE 0)
           full == char_count + 1 = RowLen
           bad  == full /\ ~PrefixOK(row1)
           ra1  == IF full THEN Append(row_array, Low32(row1)) ELSE row_array
           rc1  == IF full THEN row_count + 1 ELSE row_count
       IN  IF bad
           THEN \* print("\nError!",c_count); sys.exit()
                /\ console' = Append(console, <<"Error!", c_count>>)
                /\ pc' = "exit"
                /\ row' = row1
                /\ char_count' = char_count + 1
                /\ UNCHANGED <<c_count, row_count, chunk_count, row_array,
                               fpout, record, outfile, files>>
           ELSE IF ~ChunkComplete(rc1)
           THEN /\ row' = IF full THEN << >> ELSE row1
                /\ char_count' = IF full THEN 0 ELSE char_count + 1
                /\ row_count' = rc1
                /\ row_array' = ra1
                /\ c_count' = c_count + 1
                /\ UNCHANGED <<pc, chunk_count, fpout, record, outfile, files, console>>
           ELSE \E dec \in {DecodeChunk(ECCTable, ra1)} :
                IF dec.exit
                THEN \* DecodeChunk: print("Error!!"); sys.exit()
                     /\ console' = Append(console, <<"Error!!">>)
                     /\ pc' = "exit"
                     /\ row' = << >>
                     /\ char_count' = 0
                     /\ row_count' = rc1
                     /\ row_array' = ra1
                     /\ UNCHANGED <<c_count, chunk_count, fpout, record, outfile, files>>
                ELSE /\ IF MustOpen(fpout)
                        THEN /\ fpout' = record
                             /\ files' = DictSet(files, record, ChunkBytes(dec.column_array))
                             /\ outfile' = Append(outfile, <<"file", record>>)
                             /\ record' = NextRecord(record)
                        ELSE /\ files' = DictSet(files, fpout,
                                                 files[fpout] \o ChunkBytes(dec.column_array))
                             /\ UNCHANGED <<fpout, outfile, record>>
                     /\ row' = << >>
                     /\ char_count' = 0
                     /\ row_array' = << >>
                     /\ chunk_count' = chunk_count + 1
                     /\ row_count' = 0
                     /\ c_count' = c_count + 1
                     /\ UNCHANGED <<pc, console>>
    /\ UNCHANGED <<nlines, rich, seg, line, state, zero_count, counting_zeros, sync_pattern,
                   notConv>>

\* a zero line is written for every line that began with zeros
TrailingZeroAlways(st, zc) == zc > 0

\* if state==0 and zero_count > 0
TrailingZero(st, zc) == st = 0 /\ zc > 0

\* PerLine.Process after the for loop
EndLine ==
    /\ pc = "line"
    /\ c_count = Len(line)
    /\ outfile' = IF TrailingZero(state, zero_count)
                  THEN Append(outfile, <<"zero", zero_count>>)
                  ELSE outfile
    /\ fpout' = 0
    /\ pc' = "time"
    /\ UNCHANGED <<nlines, rich, seg, lineVars, record, files, console, notConv>>

ConvNext == ReadCmds \/ ReadArgs \/ ReadTime \/ ReadData \/ ScanChar \/ RowChar \/ EndLine

-----------------------------------------------------------------------------
(* kcdecode: PerTransition                                                 *)
(* Positions and intervals are integers, thousandths of a sample.  A       *)
(* threshold t = (k +- 75/100) * spb / 4 is kept as 400 * t, so that       *)
(* delta >= t is 400 * delta >= 400 * t, exactly.                          *)

\* self.last_ifrac = None: no position
NoIfrac == -1

absolute_percent_threshold == 75
energy_threshold           == 500

MaxEvents == 5

\* the tolerance taken as 100 percent
short_bottom_whole(spb) == (200 - 100) * spb

\* (2.0-self.absolute_percent_threshold/100.0)*self.nominal_samples_per_bit/4.0
short_bottom(spb) == (200 - absolute_percent_threshold) * spb

\* (2.0+self.absolute_percent_threshold/100.0)*self.nominal_samples_per_bit/4.0
short_top(spb) == (200 + absolute_percent_threshold) * spb

\* (4.0-self.absolute_percent_threshold/100.0)*self.nominal_samples_per_bit/4.0
long_bottom(spb) == (400 - absolute_percent_threshold) * spb

\* (4.0+self.absolute_percent_threshold/100.0)*self.nominal_samples_per_bit/4.0
long_top(spb) == (400 + absolute_percent_threshold) * spb

\* the lower edge of Long taken as outside the band
ClassifyOpenLong(d, spb) ==
    IF 400 * d > long_top(spb) THEN "w"
    ELSE IF 400 * d > long_bottom(spb) THEN "L"
    ELSE IF 400 * d > short_top(spb) THEN "m"
    ELSE IF 400 * d >= short_bottom(spb) THEN "S"
    ELSE "s"

\* the interval of a delta, with samples_per_bit = spb
Classify(d, spb) ==
    IF 400 * d > long_top(spb) THEN "w"
    ELSE IF 400 * d >= long_bottom(spb) THEN "L"
    ELSE IF 400 * d > short_top(spb) THEN "m"
    ELSE IF 400 * d >= short_bottom(spb) THEN "S"
    ELSE "s"

\* the samples per bit the classifier is built with: 100 samples
SamplesPerBit == {100 * 1000}

\* the intervals between transitions that are tried: 24.999 and 25.0 samples
\* and, at 100 samples per bit, both sides of every band edge
Deltas == {24999, 25000, 31249, 31250, 68750, 68751, 81249, 81250, 118750, 118751}

\* the events that are tried: <<window energy, samples since the last event>>
Events ==
    {<<energy_threshold, d>> : d \in Deltas} \cup {<<energy_threshold - 1, 100000>>}

PulseInit ==
    /\ last_ifrac = NoIfrac
    /\ expecting_short = FALSE
    /\ num_deltas = 0
    /\ total_deltas = 0
    /\ measure \in BOOLEAN
    /\ nominal_samples_per_bit \in SamplesPerBit
    /\ pulse_out = << >>
    /\ printed = << >>
    /\ interval = ""
    /\ delta = 0
    /\ ifrac = 0
    /\ energy = [num |-> 0, den |-> 1]
    /\ nevents = 0

\* PerBit.ProcessBit(ifrac, bit): self.args.outfile.write(bit)
\* (every entry of the output is a tuple that starts with the text written)
ProcessBit(out, bit) == Append(out, <<bit>>)

\* Process(energy, ifrac), energy >= threshold, no transition before in this segment
FirstTransition(at) ==
    /\ last_ifrac = NoIfrac
    /\ printed' = IF measure /\ num_deltas # 0
                  THEN Append(printed, <<total_deltas, num_deltas>>)
                  ELSE printed
    /\ num_deltas' = IF measure THEN 0 ELSE num_deltas
    /\ total_deltas' = IF measure THEN 0 ELSE total_deltas
    /\ last_ifrac' = at
    /\ pulse_out' = pulse_out \o << <<"time ", at>>, <<"data ">> >>
    /\ interval' = ""
    /\ delta' = 0
    /\ UNCHANGED expecting_short

\* Process(energy, ifrac), energy >= threshold, at least 2 transitions
\* what is written for an interval when a second short one is expected
SecondShortBitAlways(iv) == "1"

\* if interval == 'S': ProcessBit(ifrac,'1') else: ProcessBit(ifrac,interval)
SecondShortBit(iv) == IF iv = "S" THEN "1" ELSE iv

\* a Short interval is written like an anomaly
StartsShortNever(iv) == FALSE

\* elif interval == 'S': self.expecting_short = True
StartsShort(iv) == iv = "S"

NextTransition(at) ==
    /\ last_ifrac # NoIfrac
    /\ LET d  == at - last_ifrac
           iv == Classify(d, nominal_samples_per_bit)
       IN  /\ delta' = d
           /\ interval' = iv
           /\ last_ifrac' = at
           /\ IF expecting_short
              THEN /\ pulse_out' = IF measure THEN pulse_out
                                   ELSE ProcessBit(pulse_out, SecondShortBit(iv))
                   /\ expecting_short' = FALSE
                   /\ UNCHANGED <<num_deltas, total_deltas>>
              ELSE IF iv = "L"
              THEN /\ num_deltas' = IF measure THEN num_deltas + 1 ELSE num_deltas
                   /\ total_deltas' = IF measure THEN total_deltas + d ELSE total_deltas
                   /\ pulse_out' = IF measure THEN pulse_out ELSE ProcessBit(pulse_out, "0")
                   /\ UNCHANGED expecting_short
              ELSE IF StartsShort(iv)
              THEN /\ expecting_short' = TRUE
                   /\ UNCHANGED <<pulse_out, num_deltas, total_deltas>>
              ELSE /\ pulse_out' = IF measure THEN pulse_out ELSE ProcessBit(pulse_out, iv)
                   /\ UNCHANGED <<expecting_short, num_deltas, total_deltas>>
    /\ UNCHANGED printed

\* the gap is written whether a segment is open or not
SegmentOpenAlways(li) == TRUE

\* if self.last_ifrac != None
SegmentOpen(li) == li # NoIfrac

\* the flag outlives the gap
FlagAfterGapKept(es) == es

\* self.expecting_short = False
FlagAfterGap(es) == FALSE

\* Process(energy, ifrac), energy < threshold
LowEnergy(at) ==
    /\ pulse_out' = IF SegmentOpen(last_ifrac)
                    THEN ProcessBit(pulse_out, "e") \o << <<"\ntime ", at>> >>
                    ELSE pulse_out
    /\ last_ifrac' = NoIfrac
    /\ expecting_short' = FlagAfterGap(expecting_short)
    /\ interval' = ""
    /\ delta' = 0
    /\ UNCHANGED <<num_deltas, total_deltas, printed>>

\* if energy >= self.energy_threshold
ValidEnergy(e) == e.num >= energy_threshold * e.den

\* PerTransition.Process(energy, ifrac), the energy e a fraction
PerTransitionProcess(e, at) ==
    /\ energy' = e
    /\ ifrac' = at
    /\ IF ValidEnergy(e)
       THEN FirstTransition(at) \/ NextTransition(at)
       ELSE LowEnergy(at)
    /\ nevents' = nevents + 1
    /\ UNCHANGED <<measure, nominal_samples_per_bit>>

\* PerTransition.Process(energy, ifrac): one transition or low energy sample
TransitionEvent ==
    /\ nevents < MaxEvents
    /\ \E ev \in Events :
          PerTransitionProcess([num |-> ev[1], den |-> 1], ifrac + ev[2])
    /\ UNCHANGED notPulse

PulseNext == TransitionEvent

-----------------------------------------------------------------------------
(* kcdecode: PerSample                                                     *)

\* nframes: the samples of the input
MaxSamples == 7

\* the 16-bit samples drawn
Samples == {-250, -1, 0, 250}

\* <<framerate, args.bitrate, args.dcwindow>>: 1/8 and 1/4 of a sample per
\* bit, with DC windows of 0, 1 (not above 1.0: not used), 1.5 and 3.5 samples
Settings == {<<1, 8, 0>>, <<1, 4, 0>>, <<1, 8, 8>>, <<1, 8, 12>>, <<1, 8, 28>>}

\* math.ceil(a / b), a >= 0, b > 0
CeilDiv(a, b) == (a + b - 1) \div b

\* math.ceil(self.samples_per_bit*10), samples_per_bit = framerate / args.bitrate
EnergyWindow(w) == CeilDiv(10 * w[1], w[2])

\* math.ceil( self.samples_per_bit * args.dcwindow ) if the product is > 1.0,
\* and no window otherwise
DCWindowLen(w) == IF w[1] * w[3] > w[2] THEN CeilDiv(w[1] * w[3], w[2]) ELSE 0

\* a zero counts as negative
SignZeroNegative(x) == IF x > 0 THEN 1 ELSE -1

\* math.copysign(1, x - threshold), threshold = 0.0: x - 0.0 is +0.0 for x = 0
Sign(x) == IF x >= 0 THEN 1 ELSE -1

\* math.fabs
Fabs(x) == IF x >= 0 THEN x ELSE -x

SeqMax(q) == CHOOSE m \in {q[k] : k \in 1 .. Len(q)} : \A k \in 1 .. Len(q) : q[k] <= m

SeqMin(q) == CHOOSE m \in {q[k] : k \in 1 .. Len(q)} : \A k \in 1 .. Len(q) : m <= q[k]

RECURSIVE SeqSum(_)
SeqSum(q) == IF q = << >> THEN 0 ELSE Head(q) + SeqSum(Tail(q))

dcwindow_is_active == Len(dcwindow_samples) > 0

\* math.floor(dcwindow_len / 2)
dcwindow_mid_index == Len(dcwindow_samples) \div 2

\* dcwindow_len - dcwindow_mid_index - 1, and 0 when the window is not used
dcwindow_i_shift ==
    IF dcwindow_is_active THEN Len(dcwindow_samples) - dcwindow_mid_index - 1 ELSE 0

\* what the samples of sample_buffer are multiplied by
SampleScale == IF dcwindow_is_active THEN Len(dcwindow_samples) ELSE 1

SampleIdle ==
    /\ energy_window = 0
    /\ sample_buffer = << >>
    /\ dcwindow_samples = << >>
    /\ smp_i = 0
    /\ handed = << >>

\* PerSample.__init__
SampleInit ==
    /\ \E w \in Settings :
          /\ energy_window = EnergyWindow(w)
          /\ dcwindow_samples = [k \in 1 .. DCWindowLen(w) |-> 0]
          \* PerTransition(args, self.samples_per_bit, self.framerate)
          /\ nominal_samples_per_bit = (1000 * w[1]) \div w[2]
    /\ sample_buffer = << >>
    /\ smp_i = 0
    /\ handed = << >>
    /\ last_ifrac = NoIfrac
    /\ expecting_short = FALSE
    /\ num_deltas = 0
    /\ total_deltas = 0
    /\ measure = FALSE
    /\ pulse_out = << >>
    /\ printed = << >>
    /\ interval = ""
    /\ delta = 0
    /\ ifrac = 0
    /\ energy = [num |-> 0, den |-> 1]
    /\ nevents = 0

\* the DC window is not waited for
ShiftSatisfiedAtOnce(i, n) == TRUE

\* i + self.dcwindow_i_shift > len(self.dcwindow_samples)
ShiftSatisfied(i, n) == i + dcwindow_i_shift > n

\* PerSample.Process(i, sample), called by KCFile.Process for frame i
ProcessSample ==
    /\ smp_i < MaxSamples
    /\ \E sample \in Samples :
          LET dcw  == IF dcwindow_is_active
                      THEN Tail(Append(dcwindow_samples, sample))
                      ELSE dcwindow_samples
              \* dcwindow_samples[mid] - sum(dcwindow_samples) / len(dcwindow_samples)
              smp  == IF dcwindow_is_active
                      THEN dcw[dcwindow_mid_index + 1] * Len(dcw) - SeqSum(dcw)
                      ELSE sample
              i    == smp_i - dcwindow_i_shift
              buf1 == Append(sample_buffer, smp)
              buf  == IF Len(buf1) > energy_window THEN Tail(buf1) ELSE buf1
              full == Len(buf) = energy_window /\ ShiftSatisfied(i, Len(dcw))
              win_energy == SeqMax(buf) - SeqMin(buf)
              prev_sample == buf[energy_window - 1]
              span == Fabs(smp - prev_sample)
              frac == Fabs(prev_sample)
          IN  /\ dcwindow_samples' = dcw
              /\ sample_buffer' = buf
              /\ IF full /\ Sign(prev_sample) # Sign(smp)
                 THEN \E at \in {(i - 1) * 1000 + (frac * 1000) \div span} :
                         /\ handed' = <<win_energy, at>>
                         \* self.pertransition.Process(energy, ifrac)
                         /\ PerTransitionProcess([num |-> win_energy, den |-> SampleScale], at)
                 ELSE /\ handed' = << >>
                      /\ UNCHANGED pulseVars
    /\ smp_i' = smp_i + 1
    /\ UNCHANGED <<energy_window, eccVars, chunkVars, convVars, memVars, toolVars>>

SampleNext == ProcessSample

-----------------------------------------------------------------------------
(* kcutils: MCMemoryMap                                                    *)

STATE_EMPTY == 0

STATE_WRITTEN == 1

\* an address has AddressBits bits (16 in the program)
AddressBits == 3

\* SIZE = 65536
SIZE == 2^AddressBits

\* range( 0, self.SIZE )
AllAddresses == 0 .. (SIZE - 1)

\* writeWord and writeLowBytesAsWord are called for the addresses 0 .. MaxAddress
MaxAddress == 1

\* the words written are 0 .. MaxWord (an array('H') holds 0 .. 65535)
MaxWord == 2

Addresses == 0 .. MaxAddress

Words == 0 .. MaxWord

\* not ( canOverwrite == False or canOverwrite == None )
CanOverwrite(arg) == ~(arg = "False" \/ arg = "None")

NoOp == [op |-> "", address |-> 0, dataWord |-> 0, forceOverwrite |-> FALSE]

NoMap == [data |-> << >>, state |-> << >>, pc |-> "idle"]

MemIdle ==
    /\ mem_canOverwrite = FALSE
    /\ mem_data = << >>
    /\ mem_state = << >>
    /\ mem_pc = "idle"
    /\ mem_op = NoOp
    /\ map_pc = "idle"
    /\ bin_file = << >>
    /\ cfg_file = << >>
    /\ rd_map = NoMap

\* MCMemoryMap.__init__(canOverwrite, statusPrinter)
MemInit ==
    /\ \E arg \in {"False", "None", "True"} : mem_canOverwrite = CanOverwrite(arg)
    /\ mem_data = [a \in AllAddresses |-> 0]
    /\ mem_state = [a \in AllAddresses |-> STATE_EMPTY]
    /\ mem_pc = "run"
    /\ mem_op = NoOp
    /\ map_pc = "fill"
    /\ bin_file = << >>
    /\ cfg_file = << >>
    /\ rd_map = NoMap

\* every write is let through
WriteAllowedAny(can, force, st, old, dataWord) == TRUE

\* the condition of the if of writeWord
WriteAllowed(can, force, st, old, dataWord) ==
    can \/ force \/ st = STATE_EMPTY \/ old = dataWord

\* writeWord(address, dataWord, forceOverwrite) on the map m = [data, state, pc]
WriteWordOn(m, address, dataWord, forceOverwrite) ==
    IF m.pc # "run"
    THEN m
    ELSE IF WriteAllowed(mem_canOverwrite, forceOverwrite,
                         m.state[address], m.data[address], dataWord)
    THEN [data  |-> [m.data EXCEPT ![address] = dataWord],
          state |-> [m.state EXCEPT ![address] = STATE_WRITTEN],
          pc    |-> "run"]
    ELSE [m EXCEPT !.pc = "exit"]

MemMap == [data |-> mem_data, state |-> mem_state, pc |-> mem_pc]

\* MCMemoryMap.writeWord
WriteWord ==
    /\ mem_pc = "run"
    /\ \E address \in Addresses, dataWord \in Words, forceOverwrite \in BOOLEAN :
          \E m \in {WriteWordOn(MemMap, address, dataWord, forceOverwrite)} :
              /\ mem_data' = m.data
              /\ mem_state' = m.state
              /\ mem_pc' = m.pc
              /\ mem_op' = [op |-> "writeWord", address |-> address,
                            dataWord |-> dataWord, forceOverwrite |-> forceOverwrite]
    /\ UNCHANGED <<mem_canOverwrite, fileVars, notMem>>

\* MCMemoryMap.writeLowBytesAsWord: the low byte at address, the high byte at
\* address + 1; mem_op is the call of writeWord that ran last
WriteLowBytesAsWord ==
    /\ mem_pc = "run"
    /\ \E address \in Addresses \ {MaxAddress}, dataWord \in {lo + 256 * hi : lo, hi \in Words},
          forceOverwrite \in BOOLEAN :
          \E m1 \in {WriteWordOn(MemMap, address, dataWord % 256, forceOverwrite)} :
          \E m2 \in {WriteWordOn(m1, address + 1, (dataWord \div 256) % 256, forceOverwrite)} :
              /\ mem_data' = m2.data
              /\ mem_state' = m2.state
              /\ mem_pc' = m2.pc
              /\ mem_op' = IF m1.pc = "run"
                           THEN [op |-> "writeLowBytesAsWord", address |-> address + 1,
                                 dataWord |-> (dataWord \div 256) % 256,
                                 forceOverwrite |-> forceOverwrite]
                           ELSE [op |-> "writeLowBytesAsWord", address |-> address,
                                 dataWord |-> dataWord % 256,
                                 forceOverwrite |-> forceOverwrite]
    /\ UNCHANGED <<mem_canOverwrite, fileVars, notMem>>

MemNext == WriteWord \/ WriteLowBytesAsWord

-----------------------------------------------------------------------------
(* kcmapmemory.main: the memory map is filled, alignMemoryBlock is called, *)
(* the BIN+CFG pair is written, and another run reads the pair back.       *)

\* the word the inputs hold for an address; its two bytes differ
TestWord(address) == 256 * (address + 1) + 2 * address + 1

\* a record reader writes one word: writeWord( address, dataWord )
LoadWord ==
    /\ map_pc = "fill"
    /\ mem_pc = "run"
    /\ \E address \in AllAddresses :
          \E m \in {WriteWordOn(MemMap, address, TestWord(address), FALSE)} :
              /\ mem_data' = m.data
              /\ mem_state' = m.state
              /\ mem_pc' = m.pc
    /\ UNCHANGED <<mem_canOverwrite, mem_op, fileVars, notMem>>

\* --mem-block-size: only values 1 through 16 are legal
BlockSizes == 1 .. AddressBits

\* ( self.SIZE - 1 ) & ~( ( 1 << blockSize ) - 1 )
AlignMask(blockSize) == (SIZE - 1) - BitAnd(SIZE - 1, 2^blockSize - 1)

\* the for loop of alignMemoryBlock, from address on; st is self._state
RECURSIVE AlignLoop(_, _, _, _)
AlignLoop(st, mask, address, foundWrite) ==
    IF address >= SIZE THEN st
    ELSE LET f0  == IF address = BitAnd(address, mask) THEN FALSE ELSE foundWrite
             hit == ~f0 /\ st[address] = STATE_WRITTEN
             st1 == IF hit
                    THEN [a \in DOMAIN st |->
                            IF BitAnd(address, mask) <= a /\ a < address
                            THEN STATE_WRITTEN ELSE st[a]]
                    ELSE st
             f1  == f0 \/ hit
             st2 == IF f1 THEN [st1 EXCEPT ![address] = STATE_WRITTEN] ELSE st1
         IN  AlignLoop(st2, mask, address + 1, f1)

\* debugPrintState(): the name is looked up as a global of kcutils, which
\* has none of that name (the method is self.debugPrintState): NameError
DebugPrintStateCall == "raise"

\* MCMemoryMap.alignMemoryBlock( blockSize ), called from kcmapmemory.main
AlignMemoryBlock ==
    /\ map_pc = "fill"
    /\ mem_pc = "run"
    /\ \E blockSize \in BlockSizes :
          /\ mem_op' = [op |-> "alignMemoryBlock", blockSize |-> blockSize]
          /\ IF blockSize <= 1
             THEN UNCHANGED <<mem_state, mem_pc>>
             ELSE /\ mem_state' = AlignLoop(mem_state, AlignMask(blockSize), 0, FALSE)
                  /\ mem_pc' = DebugPrintStateCall
    /\ map_pc' = "aligned"
    /\ UNCHANGED <<mem_canOverwrite, mem_data, bin_file, cfg_file, rd_map, notMem>>

HexDigits ==
    <<"0", "1", "2", "3", "4", "5", "6", "7", "8", "9", "a", "b", "c", "d", "e", "f">>

\* '%04x' % n, for n below 65536
Hex4(n) ==
    <<HexDigits[((n \div 4096) % 16) + 1], HexDigits[((n \div 256) % 16) + 1],
      HexDigits[((n \div 16) % 16) + 1], HexDigits[(n % 16) + 1]>>

\* int( text, 16 )
RECURSIVE ParseHex(_)
ParseHex(text) ==
    IF text = << >> THEN 0
    ELSE 16 * ParseHex(SubSeq(text, 1, Len(text) - 1))
         + (CHOOSE v \in 0 .. 15 : HexDigits[v + 1] = text[Len(text)])

\* '$%04x - $%04x = $%04x\n' % ( startOffset, endOffset, startAddress )
MappingLine(startOffset, endOffset, startAddress) ==
    [from |-> Hex4(startOffset), to |-> Hex4(endOffset), at |-> Hex4(startAddress)]

\* word.to_bytes( 2, byteorder="big", signed=False )
BigEndian(w) == <<w \div 256, w % 256>>

\* the for loop of writeMappingSection, from address on; f holds the local
\* variables (started: startAddress != None) and the two files
RECURSIVE MappingLoop(_, _)
MappingLoop(f, address) ==
    IF address >= SIZE THEN f
    ELSE IF mem_state[address] = STATE_WRITTEN
    THEN MappingLoop([f EXCEPT !.started = TRUE,
                               !.startAddress = IF f.started THEN @ ELSE address,
                               !.nextOffset = @ + 1,
                               !.bin = @ \o BigEndian(mem_data[address])],
                     address + 1)
    ELSE IF f.started
    THEN MappingLoop([f EXCEPT !.cfg = Append(@, MappingLine(f.startOffset, f.nextOffset - 1,
                                                             f.startAddress)),
                               !.startOffset = f.nextOffset,
                               !.started = FALSE],
                     address + 1)
    ELSE MappingLoop(f, address + 1)

\* the end offset of the line written after the loop: self.memoryMap.SIZE-1
FinalEndOffset(f) == SIZE - 1

\* BinCfgFilePair.writeMappingSection( binFile, cfgFile ), called from writeFiles
WriteMappingSection ==
    /\ map_pc = "aligned"
    /\ mem_pc = "run"
    /\ \E f \in {MappingLoop([started |-> FALSE, startAddress |-> 0, startOffset |-> 0,
                              nextOffset |-> 0, bin |-> << >>, cfg |-> << >>], 0)} :
          /\ bin_file' = f.bin
          /\ cfg_file' = IF f.started
                         THEN Append(f.cfg, MappingLine(f.startOffset, FinalEndOffset(f),
                                                        f.startAddress))
                         ELSE f.cfg
    /\ map_pc' = "written"
    /\ UNCHANGED <<mem_canOverwrite, mem_data, mem_state, mem_pc, mem_op, rd_map, notMem>>

\* the for loop of writeByteBuffer, from index i on; a write past the end
\* of self._state is an IndexError
RECURSIVE BufferLoop(_, _, _, _, _, _)
BufferLoop(m, address, bufferData, bufferStart, bufferEnd, i) ==
    IF i >= bufferEnd \/ m.pc # "run" THEN m
    ELSE IF address + ((i - bufferStart) \div 2) \notin AllAddresses
    THEN [m EXCEPT !.pc = "raise"]
    ELSE BufferLoop(WriteWordOn(m, address + ((i - bufferStart) \div 2),
                                256 * (bufferData[i + 1] % 256) + (bufferData[i + 2] % 256),
                                FALSE),
                    address, bufferData, bufferStart, bufferEnd, i + 2)

\* MCMemoryMap.writeByteBuffer( address, bufferData, bufferStart, bufferLenInBytes, ... )
\* (bufferData[i] of the program is bufferData[i + 1] here)
WriteByteBuffer(m, address, bufferData, bufferStart, bufferLenInBytes) ==
    IF m.pc # "run" THEN m
    ELSE IF bufferStart < 0 \/ bufferLenInBytes < 1 THEN [m EXCEPT !.pc = "exit"]
    ELSE IF bufferStart + bufferLenInBytes > Len(bufferData) THEN [m EXCEPT !.pc = "exit"]
    ELSE BufferLoop(m, address, bufferData, bufferStart,
                    bufferStart + bufferLenInBytes, bufferStart)

\* readFiles: the lines of the [mapping] section, from line k on
RECURSIVE ReadMapping(_, _)
ReadMapping(m, k) ==
    IF k > Len(cfg_file) THEN m
    ELSE LET startOffset  == ParseHex(cfg_file[k].from)
             lenInBytes   == (ParseHex(cfg_file[k].to) - startOffset + 1) * 2
             startAddress == ParseHex(cfg_file[k].at)
         IN  ReadMapping(WriteByteBuffer(m, startAddress, bin_file, startOffset * 2, lenInBytes),
                         k + 1)

\* BinCfgFilePair.readFiles(), on the MCMemoryMap of a new run
ReadFiles ==
    /\ map_pc = "written"
    /\ rd_map' = IF Len(bin_file) <= 0
                 THEN [data |-> [a \in AllAddresses |-> 0],
                       state |-> [a \in AllAddresses |-> STATE_EMPTY],
                       pc |-> "exit"]
                 ELSE ReadMapping([data |-> [a \in AllAddresses |-> 0],
                                   state |-> [a \in AllAddresses |-> STATE_EMPTY],
                                   pc |-> "run"], 1)
    /\ map_pc' = "read"
    /\ UNCHANGED <<mem_canOverwrite, mem_data, mem_state, mem_pc, mem_op,
                   bin_file, cfg_file, notMem>>

MapNext == LoadWord \/ AlignMemoryBlock \/ WriteMappingSection \/ ReadFiles

-----------------------------------------------------------------------------
(* kctap2wav: KCFile.Handle and KCFile.Process                             *)

mag == 30000

\* the reads of two bytes that succeed
MaxPairs == 2

\* the bytes of the tap file: four absent bits; four 0 bits; four 1 bits;
\* a 1 bit, a 0 bit and two absent bits
TapBytes == {0, 170, 255, 228}

TapIdle ==
    /\ rawdata = << >>
    /\ tap_h = 0
    /\ tap_n = 0
    /\ sign0 = 0
    /\ sign1 = 0
    /\ data0 = << >>
    /\ data1 = << >>
    /\ wav_frames = << >>

VerifyIdle ==
    /\ v_pass = 0
    /\ v_first = << >>

\* Process up to the while loop: sign0 = 1, sign1 = 1; nothing is read yet
TapInit ==
    /\ rawdata = << >>
    /\ tap_h = 9
    /\ tap_n = 0
    /\ sign0 = 1
    /\ sign1 = 1
    /\ data0 = << >>
    /\ data1 = << >>
    /\ wav_frames = << >>

\* the sign is left as it is for a 0 bit
ZeroBitSignKept(sign) == sign

\* sign = -sign
ZeroBitSign(sign) == 0 - sign

\* Handle(sign, data, present, bit): the sign returned and data after the call
Handle(sign, data, present, bit) ==
    IF present = 0
    THEN [sign |-> sign, data |-> data \o <<0, 0>>]
    ELSE IF bit = 0
    THEN [sign |-> ZeroBitSign(sign),
          data |-> data \o <<ZeroBitSign(sign) * mag, ZeroBitSign(sign) * mag>>]
    ELSE [sign |-> sign, data |-> data \o <<(0 - sign) * mag, sign * mag>>]

\* rawdata = self.args.infile.read(2), a read that returns two bytes, and
\* data0 = [], data1 = []
ReadPair ==
    /\ tap_h = 9
    /\ tap_n < MaxPairs
    /\ \E b0 \in TapBytes, b1 \in TapBytes : rawdata' = <<b0, b1>>
    /\ tap_n' = tap_n + 1
    /\ tap_h' = 0
    /\ data0' = << >>
    /\ data1' = << >>
    /\ UNCHANGED <<sign0, sign1, wav_frames, notTap>>

\* the masks of call h of the loop body: 0x80 and 0x40 for calls 0 and 1,
\* 0x20 and 0x10 for calls 2 and 3, and so on
PresentMask(h) == 2^(7 - 2 * (h \div 2))
BitMask(h)     == 2^(6 - 2 * (h \div 2))

\* call h of the loop body: the even calls are for rawdata[0] with sign0 and
\* data0, the odd calls for rawdata[1] with sign1 and data1
HandleCall ==
    /\ tap_h \in 0 .. 7
    /\ IF tap_h % 2 = 0
       THEN /\ \E r \in {Handle(sign0, data0, BitAnd(rawdata[1], PresentMask(tap_h)),
                                 BitAnd(rawdata[1], BitMask(tap_h)))} :
                  sign0' = r.sign /\ data0' = r.data
            /\ UNCHANGED <<sign1, data1>>
       ELSE /\ \E r \in {Handle(sign1, data1, BitAnd(rawdata[2], PresentMask(tap_h)),
                                 BitAnd(rawdata[2], BitMask(tap_h)))} :
                  sign1' = r.sign /\ data1' = r.data
            /\ UNCHANGED <<sign0, data0>>
    /\ tap_h' = tap_h + 1
    /\ UNCHANGED <<rawdata, tap_n, wav_frames, notTap>>

\* newval.to_bytes(2, byteorder='little', signed=True)
LittleEndianSigned(v) ==
    <<(IF v < 0 THEN v + 65536 ELSE v) % 256, (IF v < 0 THEN v + 65536 ELSE v) \div 256>>

\* BuildFrame(frame, [x for t in zip(data0, data1) for x in t]), from sample k on
RECURSIVE BuildFrame(_, _, _)
BuildFrame(d0, d1, k) ==
    IF k > Len(d0) \/ k > Len(d1) THEN << >>
    ELSE LittleEndianSigned(d0[k]) \o LittleEndianSigned(d1[k]) \o BuildFrame(d0, d1, k + 1)

\* ww.writeframes(frame)
WriteFrames ==
    /\ tap_h = 8
    /\ wav_frames' = wav_frames \o BuildFrame(data0, data1, 1)
    /\ tap_h' = 9
    /\ UNCHANGED <<rawdata, tap_n, sign0, sign1, data0, data1, notTap>>

TapNext == ReadPair \/ HandleCall \/ WriteFrames

-----------------------------------------------------------------------------
(* kcverify: PerLine.Process.  Its local variables are those of kcconvert's *)
(* PerLine.Process and are kept in the same variables; outfile holds the   *)
(* characters written after "data ", console what print() wrote.           *)

\* the data lines given to kcverify: clean lines; lines with one bit flipped
\* in one column, in every column of the first chunk, in every column of the
\* second chunk; a column with two bits flipped; a bad row; a row too many
VerifyLines ==
    {Clean(z, n) : z \in 0 .. MaxZeros, n \in 1 .. MaxChunks}
    \cup
    {[Clean(1, 1) EXCEPT !.mask = m] : m \in {FlipOne(5, 8), FlipEvery(0), FlipOne(31, 3)}}
    \cup
    {[Clean(0, MaxChunks) EXCEPT !.flipchunk = 1, !.mask = FlipEvery(3)],
     [Clean(0, 1) EXCEPT !.badrows = {NumRows - 1}],
     [Clean(0, 1) EXCEPT !.tail = RowLen]}

VerifyInit ==
    /\ pc = "data"
    /\ nlines = 0
    /\ rich = FALSE
    /\ seg = Unsynced(0)
    /\ line = << >>
    /\ c_count = 0
    /\ state = 0
    /\ zero_count = 0
    /\ counting_zeros = TRUE
    /\ sync_pattern = << >>
    /\ char_count = 0
    /\ row_count = 0
    /\ chunk_count = 0
    /\ row = << >>
    /\ row_array = << >>
    /\ fpout = 0
    /\ record = 1
    /\ outfile = << >>
    /\ files = << >>
    /\ console = << >>
    /\ v_pass = 0
    /\ v_first = << >>

\* Process(line), up to the for loop, for the line l
VerifyStart(l) ==
    /\ line' = l
    /\ c_count' = 0
    /\ state' = 0
    /\ zero_count' = 0
    /\ counting_zeros' = TRUE
    /\ sync_pattern' = << >>
    /\ char_count' = 0
    /\ row_count' = 0
    /\ chunk_count' = 0
    /\ row' = << >>
    /\ row_array' = << >>
    /\ outfile' = << >>
    /\ console' = << >>
    /\ pc' = "line"

\* KCFile.Process: write('data '); self.perline.Process(line[5:])
VerifyData ==
    /\ pc = "data"
    /\ \E d \in VerifyLines :
          /\ seg' = d
          /\ VerifyStart(MakeLine(d))
    /\ v_pass' = 1
    /\ nlines' = nlines + 1
    /\ UNCHANGED <<rich, fpout, record, files, v_first, notVerify>>

\* the data line written by the first run is given to a second run
VerifyAgain ==
    /\ pc = "time"
    /\ v_pass = 1
    /\ VerifyStart(v_first)
    /\ v_pass' = 2
    /\ UNCHANGED <<nlines, rich, seg, fpout, record, files, v_first, notVerify>>

\* one character of the line while state == 0
VerifyScanChar ==
    /\ pc = "line"
    /\ c_count < Len(line)
    /\ state = 0
    /\ LET c   == line[c_count + 1]
           cnt == c = "0" /\ counting_zeros
           zc  == IF cnt THEN zero_count + 1 ELSE zero_count
           out == IF cnt THEN Append(outfile, "0") ELSE outfile
           sp0 == Append(sync_pattern, c)
           sp  == IF Len(sp0) > SyncLen THEN Tail(sp0) ELSE sp0
       IN  /\ zero_count' = zc
           /\ counting_zeros' = (counting_zeros /\ c = "0")
           /\ sync_pattern' = sp
           /\ IF sp = SyncPattern
              THEN /\ console' = Append(console, <<"Zero Count =", zc - PreambleZeros>>)
                   /\ outfile' = out \o SubSeq(sp, PreambleZeros + 1, Len(sp))
                   /\ state' = 1
                   /\ row' = << >>
                   /\ char_count' = 0
                   /\ row_count' = 0
                   /\ chunk_count' = 0
                   /\ row_array' = << >>
              ELSE /\ outfile' = out
                   /\ UNCHANGED <<console, state, row, char_count, row_count,
                                  chunk_count, row_array>>
    /\ c_count' = c_count + 1
    /\ UNCHANGED <<pc, nlines, rich, seg, line, fpout, record, files, verifyVars, notVerify>>

\* the bits are written lowest first
VerifyBitReversed(code, i) == (code \div 2^i) % 2

\* (column_array[j] >> (14-i)) & 0x01
VerifyBit(code, i) == (code \div 2^(14 - i)) % 2

\* the 15 rows written for a chunk: '11101' and the 32 bits of row i
VerifyRows(column_array) ==
    [n \in 1 .. (NumRows * RowLen) |->
        LET i == (n - 1) \div RowLen
            p == (n - 1) % RowLen
        IN  IF p < 5 THEN GoodPrefix[p + 1]
            ELSE IF VerifyBit(column_array[p - 4], i) = 1 THEN "1" ELSE "0"]

\* DecodeChunk: print("Fixed Bit",column_array[i],'->',t[1]) for the columns
\* of status 2
FixedBits(cols) ==
    LET fixed == SelectSeq([j \in 1 .. Len(cols) |-> j],
                           LAMBDA j : ECCTable[cols[j]][1] = Corrected)
    IN  [k \in 1 .. Len(fixed) |->
            <<"Fixed Bit", cols[fixed[k]], ECCTable[cols[fixed[k]]][2]>>]

\* one character of the line while state == 1
VerifyRowChar ==
    /\ pc = "line"
    /\ c_count < Len(line)
    /\ state = 1
    /\ LET c    == line[c_count + 1]
           row1 == Append(row, IF c = "1" THEN 1 ELSE 0)
           full == char_count + 1 = RowLen
           bad  == full /\ ~PrefixOK(row1)
           ra1  == IF full THEN Append(row_array, Low32(row1)) ELSE row_array
           rc1  == IF full THEN row_count + 1 ELSE row_count
       IN  IF bad
           THEN \* print("Error! near column",c_count); sys.exit()
                /\ console' = Append(console, <<"Error! near column", c_count>>)
                /\ pc' = "exit"
                /\ row' = row1
                /\ char_count' = char_count + 1
                /\ UNCHANGED <<c_count, row_count, chunk_count, row_array, outfile>>
           ELSE IF ~ChunkComplete(rc1)
           THEN /\ row' = IF full THEN << >> ELSE row1
                /\ char_count' = IF full THEN 0 ELSE char_count + 1
                /\ row_count' = rc1
                /\ row_array' = ra1
                /\ c_count' = c_count + 1
                /\ UNCHANGED <<pc, chunk_count, outfile, console>>
           ELSE \E cols \in {Transposed(ra1)} : \E dec \in {DecodeColumns(ECCTable, cols)} :
                IF dec.exit
                THEN \* DecodeChunk: print("Unrecoverable Error!!"); sys.exit()
                     /\ console' = console \o FixedBits(SubSeq(cols, 1, dec.at))
                                           \o << <<"Unrecoverable Error!!">> >>
                     /\ pc' = "exit"
                     /\ row' = << >>
                     /\ char_count' = 0
                     /\ row_count' = rc1
                     /\ row_array' = ra1
                     /\ UNCHANGED <<c_count, chunk_count, outfile>>
                ELSE /\ console' = console \o FixedBits(cols)
                     /\ outfile' = outfile \o VerifyRows(dec.column_array)
                     /\ row' = << >>
                     /\ char_count' = 0
                     /\ row_array' = << >>
                     /\ chunk_count' = chunk_count + 1
                     /\ row_count' = 0
                     /\ c_count' = c_count + 1
                     /\ UNCHANGED pc
    /\ UNCHANGED <<nlines, rich, seg, line, state, zero_count, counting_zeros, sync_pattern,
                   fpout, record, files, verifyVars, notVerify>>

\* PerLine.Process after the for loop: self.args.outfile.write('\n')
VerifyEndLine ==
    /\ pc = "line"
    /\ c_count = Len(line)
    /\ outfile' = Append(outfile, "\n")
    /\ v_first' = IF v_pass = 1 THEN Append(outfile, "\n") ELSE v_first
    /\ pc' = "time"
    /\ UNCHANGED <<nlines, rich, seg, lineVars, fpout, record, files, console, v_pass,
                   notVerify>>

VerifyNext == VerifyData \/ VerifyAgain \/ VerifyScanChar \/ VerifyRowChar \/ VerifyEndLine

-----------------------------------------------------------------------------
(* The specifications.  Each runs one part of the program and leaves the   *)
(* variables of the other parts as they are.                               *)

ECCIdle ==
    /\ ecc = << >>
    /\ correct_keys = << >>
    /\ ecc_pc = "idle"
    /\ ecc_read = << >>

ChunkIdle ==
    /\ ck_input = [start |-> 0, stride |-> 0, mask |-> NoFlips]
    /\ ck_rows = << >>
    /\ ck_result = [called |-> FALSE]

ConvIdle == ConvInit

PulseIdle ==
    /\ last_ifrac = NoIfrac
    /\ expecting_short = FALSE
    /\ num_deltas = 0
    /\ total_deltas = 0
    /\ measure = FALSE
    /\ nominal_samples_per_bit = 0
    /\ pulse_out = << >>
    /\ printed = << >>
    /\ interval = ""
    /\ delta = 0
    /\ ifrac = 0
    /\ energy = [num |-> 0, den |-> 1]
    /\ nevents = 0

InitECC == ECCInit /\ ChunkIdle /\ ConvIdle /\ PulseIdle /\ SampleIdle /\ MemIdle /\ TapIdle /\ VerifyIdle

SpecECC == InitECC /\ [][ECCNext]_vars

InitChunk == ChunkInit /\ ECCIdle /\ ConvIdle /\ PulseIdle /\ SampleIdle /\ MemIdle /\ TapIdle /\ VerifyIdle

SpecChunk == InitChunk /\ [][ChunkNext]_vars

Init == ConvInit /\ ECCIdle /\ ChunkIdle /\ PulseIdle /\ SampleIdle /\ MemIdle /\ TapIdle /\ VerifyIdle

Next == ConvNext

Spec == Init /\ [][Next]_vars

InitPulse == PulseInit /\ ECCIdle /\ ChunkIdle /\ ConvIdle /\ SampleIdle /\ MemIdle /\ TapIdle /\ VerifyIdle

SpecPulse == InitPulse /\ [][PulseNext]_vars

InitSample == SampleInit /\ ECCIdle /\ ChunkIdle /\ ConvIdle /\ MemIdle /\ TapIdle /\ VerifyIdle

SpecSample == InitSample /\ [][SampleNext]_vars

InitMem == MemInit /\ ECCIdle /\ ChunkIdle /\ ConvIdle /\ PulseIdle /\ SampleIdle /\ TapIdle /\ VerifyIdle

SpecMem == InitMem /\ [][MemNext]_vars

SpecMap == InitMem /\ [][MapNext]_vars

InitTap == TapInit /\ VerifyIdle /\ ECCIdle /\ ChunkIdle /\ ConvIdle /\ PulseIdle /\ SampleIdle
           /\ MemIdle

SpecTap == InitTap /\ [][TapNext]_vars

InitVerify == VerifyInit /\ TapIdle /\ ECCIdle /\ ChunkIdle /\ PulseIdle /\ SampleIdle /\ MemIdle

SpecVerify == InitVerify /\ [][VerifyNext]_vars

-----------------------------------------------------------------------------
(* Properties of CreateECCTable, checked under SpecECC.                    *)

\* the codes whose entry in the table e has status Valid
ValidCodes(e) == {c \in TableKeys(e) : TableGet(e, c)[1] = Valid}

\* self.ecc as built, loop by loop, is the table the other parts read
TableAsBuilt ==
    ecc_pc = "done" =>
        /\ TableKeys(ecc) = DOMAIN ECCTable
        /\ \A c \in DOMAIN ECCTable : TableGet(ecc, c) = ECCTable[c]

\* C1: after CreateECCTable the keys of the table are exactly the 32768
\* codes 0..32767, one entry each, and exactly 1024 entries have status Valid.
ECCTableComplete ==
    ecc_pc = "done" =>
        /\ TableKeys(ecc) = 0 .. (NumCodes - 1)
        /\ Cardinality(ValidCodes(ecc)) = NumData

\* CreateECCTable has run to its end: code 0 is Valid and code 3, two bits
\* from it, was left to the default.
ECCTableCompleteSeen ==
    /\ ecc_pc = "done"
    /\ Len(correct_keys) = NumData
    /\ TableGet(ecc, 0) = <<Valid, 0>>
    /\ TableGet(ecc, 3) = <<Unrecoverable, 0>>

\* C2: for every Valid codeword c and every bit b in 0..14 the entry of
\* c XOR (1<<b) has status Corrected, and its target is a Valid codeword at
\* Hamming distance at most 1 from c XOR (1<<b).
SingleFlipsCorrected ==
    ecc_pc = "done" =>
        \A c \in ValidCodes(ecc) : \A b \in 0 .. 14 :
            LET bad == BitXor(c, ShiftLeft(1, b))
                t   == TableGet(ecc, bad)
            IN  /\ t[1] = Corrected
                /\ TableHas(ecc, t[2])
                /\ TableGet(ecc, t[2])[1] = Valid
                /\ HammingDistance(t[2], bad) <= 1

\* the table is built and holds the corrections of the flips of codeword 0
\* in its lowest and its highest bit
SingleFlipsCorrectedSeen ==
    /\ ecc_pc = "done"
    /\ TableGet(ecc, 0)[1] = Valid
    /\ TableGet(ecc, 1) = <<Corrected, 0>>
    /\ TableGet(ecc, 16384) = <<Corrected, 0>>

\* C31: once CreateECCTable has returned, the table is only read: a lookup
\* of DecodeChunk, whether it finds a Valid, a Corrected or an Unrecoverable
\* entry, leaves every key and every entry as they were.
TableReadOnly ==
    [][(ecc_pc = "done" \/ ecc_pc = "read") => ecc' = ecc]_vars

\* a lookup has found the Unrecoverable entry of code 3, the one DecodeChunk
\* exits on, and the entries around it are the ones CreateECCTable wrote
TableReadOnlySeen ==
    /\ ecc_pc = "read"
    /\ ecc_read = <<3, <<Unrecoverable, 0>> >>
    /\ TableGet(ecc, 3) = <<Unrecoverable, 0>>
    /\ TableGet(ecc, 2) = <<Corrected, 0>>
    /\ TableGet(ecc, 0) = <<Valid, 0>>

\* the codes whose entry in the table e has status Corrected
CorrectedCodes(e) == {c \in TableKeys(e) : TableGet(e, c)[1] = Corrected}

\* C34: once the second loop has run, every Valid codeword c still has the
\* entry (1,c) and each of its 15 single-bit neighbours has the entry (2,c):
\* no neighbour is a Valid codeword, no code is the neighbour of two Valid
\* codewords (there are 15 * 1024 Corrected entries), so no write of the
\* loop replaced an entry by a different one.
NeighbourhoodsDisjoint ==
    ecc_pc \in {"default", "done"} =>
        /\ Cardinality(ValidCodes(ecc)) = NumData
        /\ Cardinality(CorrectedCodes(ecc)) = NumBits * NumData
        /\ \A c \in ValidCodes(ecc) :
              /\ TableGet(ecc, c) = <<Valid, c>>
              /\ \A b \in 0 .. (NumBits - 1) :
                    TableGet(ecc, FlipBit(c, b)) = <<Corrected, c>>

\* the second loop has run, the defaults are not yet filled in: the last
\* codeword, of data bits 1023, kept its entry and its neighbours lead to it
NeighbourhoodsDisjointSeen ==
    /\ ecc_pc = "default"
    /\ ~TableHas(ecc, 3)
    /\ TableGet(ecc, CodeWord(NumData - 1)) = <<Valid, CodeWord(NumData - 1)>>
    /\ TableGet(ecc, CodeWord(NumData - 1) - 1) = <<Corrected, CodeWord(NumData - 1)>>

\* C35: every code that differs from a Valid codeword in exactly two of the
\* 15 bits has the entry (0,0): it is neither Valid nor the single-bit
\* neighbour of any Valid codeword.
TwoBitErrorsUnrecoverable ==
    ecc_pc = "done" =>
        \A c \in ValidCodes(ecc) :
            \A a \in 0 .. (NumBits - 1) : \A b \in (a + 1) .. (NumBits - 1) :
                TableGet(ecc, FlipBit(FlipBit(c, a), b)) = <<Unrecoverable, 0>>

\* the last codeword with its lowest and its highest bit flipped has been
\* looked up and found Unrecoverable
TwoBitErrorsUnrecoverableSeen ==
    /\ ecc_pc = "read"
    /\ ecc_read[1] = FlipBit(FlipBit(CodeWord(NumData - 1), 0), NumBits - 1)
    /\ ecc_read[2] = <<Unrecoverable, 0>>

-----------------------------------------------------------------------------
(* Properties of DecodeChunk, checked under SpecChunk.                     *)

\* the columns of the chunk whose codeword was changed
FlippedColumns(inp) == {c \in Columns : inp.mask[c] # 0}

\* exactly one bit of one column's codeword was flipped
OneBitFlipped(inp) ==
    /\ Cardinality(FlippedColumns(inp)) = 1
    /\ \A c \in FlippedColumns(inp) : PopCount(inp.mask[c]) = 1

\* x is two or more bits from every codeword of the forward table
FarFromValid(x) ==
    /\ ~IsCorrectKey(x)
    /\ \A b \in 0 .. (NumBits - 1) : ~IsCorrectKey(FlipBit(x, b))

\* C3: a chunk whose column j is the codeword of d_j, no bit changed, is
\* decoded without the error exit, and column_array[j] & 0x3ff is d_j for
\* every column, in column order.
RoundTripNoErrors ==
    (ck_result.called /\ FlippedColumns(ck_input) = {}) =>
        /\ ~ck_result.exit
        /\ DataWords(ck_result.column_array) = ChunkData(ck_input)

\* the chunk of the data words 682, 683, ..., 713 has been decoded
RoundTripNoErrorsSeen ==
    /\ ck_result.called
    /\ ck_input = [start |-> 682, stride |-> 1, mask |-> NoFlips]
    /\ ~ck_result.exit
    /\ DataWords(ck_result.column_array)[1] = 682
    /\ DataWords(ck_result.column_array)[NumCols] = 713

\* C4: a chunk with exactly one bit flipped in one column's codeword, any
\* column and any of the 15 bits, is decoded to the original 32 data words.
SingleBitCorrected ==
    (ck_result.called /\ OneBitFlipped(ck_input)) =>
        /\ ~ck_result.exit
        /\ DataWords(ck_result.column_array) = ChunkData(ck_input)

\* the top syndrome bit of the last column was flipped, and the column came
\* back as the codeword it was built from
SingleBitCorrectedSeen ==
    /\ ck_result.called
    /\ ck_input.mask = FlipOne(NumCols - 1, 2^(NumBits - 1))
    /\ ~ck_result.exit
    /\ ck_result.column_array[NumCols] = CodeTable[ChunkWord(ck_input, NumCols - 1)]
    /\ Transposed(ck_rows)[NumCols] # ck_result.column_array[NumCols]

\* C5: when some column of the chunk is two or more bits from every valid
\* codeword, DecodeChunk takes the "Error!!" exit and returns no column, so
\* no valid codeword is put in its place.
UnrecoverableDetected ==
    (ck_result.called /\ \E j \in Columns : FarFromValid(ChunkCode(ck_input, j))) =>
        /\ ck_result.exit
        /\ ck_result.column_array = << >>

\* the two lowest bits of the first column were flipped, and DecodeChunk
\* exited at that column
UnrecoverableDetectedSeen ==
    /\ ck_result.called
    /\ ck_input.mask = FlipOne(0, 3)
    /\ FarFromValid(ChunkCode(ck_input, 0))
    /\ ck_result.exit
    /\ ck_result.at = 0

\* the number whose bit (14-k) is bit (31-j) of row r_k, for the rows from
\* r_k on (a row is its 32 bits, bit 31 first)
RECURSIVE CodeOfColumn(_, _, _)
CodeOfColumn(rows, j, k) ==
    IF k >= Len(rows) THEN 0
    ELSE rows[k + 1][j + 1] * 2^(14 - k) + CodeOfColumn(rows, j, k + 1)

\* C28: DecodeChunk looks up, for column j, the 15-bit codeword whose bit
\* (14-k) is bit (31-j) of row r_k, the first row giving the top bit: what it
\* returns for the column is that codeword, or the Valid codeword the table
\* has for it, and it exits at the first column whose codeword so formed is
\* Unrecoverable.
ChunkTransposition ==
    ck_result.called =>
        LET codes == [j \in 1 .. NumCols |-> CodeOfColumn(ck_rows, j - 1, 0)]
            fatal == {j \in 1 .. NumCols : ECCTable[codes[j]][1] = Unrecoverable}
        IN  /\ Len(ck_rows) = NumRows
            /\ ck_result.exit <=> fatal # {}
            /\ ck_result.exit => \A j \in fatal : ck_result.at <= j - 1
            /\ ck_result.exit => (ck_result.at + 1) \in fatal
            /\ ~ck_result.exit =>
                  \A j \in 1 .. NumCols :
                      ck_result.column_array[j] =
                          (IF ECCTable[codes[j]][1] = Corrected
                           THEN ECCTable[codes[j]][2] ELSE codes[j])

\* the chunk of the words 0, 2, 4, ... has been decoded: column 31 is the
\* codeword of 62, read from the last bit of each row
ChunkTranspositionSeen ==
    /\ ck_result.called
    /\ ck_input = [start |-> 0, stride |-> 2, mask |-> NoFlips]
    /\ ~ck_result.exit
    /\ ck_result.column_array[NumCols] = CodeTable[62]
    /\ CodeOfColumn(ck_rows, 31, 0) = CodeTable[62]

-----------------------------------------------------------------------------
(* Properties of kcconvert, checked under Spec.                            *)

\* the lines of args.outfile written since the last "time" line was copied
TimeMarks == {i \in 1 .. Len(outfile) : outfile[i][1] = "time"}

LastMark == IF TimeMarks = {} THEN 0 ELSE CHOOSE i \in TimeMarks : \A k \in TimeMarks : k <= i

SegmentLines == SubSeq(outfile, LastMark + 1, Len(outfile))

IsFileLine(l) == l[1] = "file"
IsZeroLine(l) == l[1] = "zero"

\* the bytes of the data words of the first n chunks of the line d, each
\* word as its high byte then its low byte
ExpectedBytes(d, n) ==
    [i \in 1 .. (2 * NumCols * n) |->
        LET q == (i - 1) \div (2 * NumCols)
            j == ((i - 1) % (2 * NumCols)) \div 2
            w == ChunkWord(SegChunk(d, q), j)
        IN  IF i % 2 = 1 THEN w \div 256 ELSE w % 256]

\* Z zeros, the preamble, exactly 15 rows as encoded, then the end of the line
OneChunkSegment(d) ==
    /\ d.sync /\ d.pre = << >>
    /\ d.nchunks = 1 /\ d.tail = 0
    /\ d.mask = NoFlips /\ d.badrows = {} /\ d.anom = {}

\* C6: a segment of Z zero bits, the preamble, 15 valid rows and then a gap
\* leaves one record of exactly 64 bytes, the data words high byte first, and
\* in the manifest exactly one zero line, with value Z, and one file line.
SegmentBoundary ==
    (pc = "time" /\ nlines > 0 /\ OneChunkSegment(seg)) =>
        /\ SelectSeq(SegmentLines, IsFileLine) = << <<"file", record - 1>> >>
        /\ SelectSeq(SegmentLines, IsZeroLine) = << <<"zero", seg.zeros>> >>
        /\ (record - 1) \in DOMAIN files
        /\ Len(files[record - 1]) = 64
        /\ files[record - 1] = ExpectedBytes(seg, 1)

\* the line of one zero, the preamble and the chunk of the words 0 .. 31 has
\* been processed to its end
SegmentBoundarySeen ==
    /\ pc = "time"
    /\ seg = Clean(1, 1)
    /\ nlines = 1
    /\ SegmentLines = << <<"zero", 1>>, <<"file", 1>> >>
    /\ Len(files[1]) = 64
    /\ files[1][63] = 0 /\ files[1][64] = 31

\* the first row of the line with the wrong prefix
BadRow(d) == CHOOSE r \in d.badrows : \A o \in d.badrows : r <= o

\* the offset in the line of the first bit of that row
BadRowStart(d) == d.zeros + Len(d.pre) + SyncLen + RowLen * BadRow(d)

RecordWellFormed(bytes, d, n) ==
    /\ Len(bytes) = 64 * n
    /\ \A i \in 1 .. Len(bytes) :
          /\ bytes[i] \in 0 .. 255
          /\ i % 2 = 1 => bytes[i] <= 3
    /\ bytes = ExpectedBytes(d, n)

\* C9: after every chunk appended, and once the segment has ended, the
\* record of the segment is 64 bytes times the chunks decoded in the segment,
\* each word is stored high byte first, and every even-offset byte is <= 3.
RecordFormat ==
    /\ (fpout # 0 /\ ((char_count = 0 /\ row_count = 0) \/ pc = "exit")) =>
          /\ fpout \in DOMAIN files
          /\ RecordWellFormed(files[fpout], seg, chunk_count)
    /\ (pc \in {"time", "data"} /\ chunk_count > 0) =>
          /\ (record - 1) \in DOMAIN files
          /\ RecordWellFormed(files[record - 1], seg, chunk_count)

\* two chunks, the words 0 .. 63, have been appended to the open record
RecordFormatSeen ==
    /\ pc = "line"
    /\ fpout # 0
    /\ chunk_count = 2
    /\ seg.start = 0
    /\ Len(files[fpout]) = 128
    /\ files[fpout][127] = 0 /\ files[fpout][128] = 63

\* C10: a record is opened exactly when the first chunk of a data line has
\* been assembled and decoded; a line that completes no chunk opens none; the
\* records are numbered 1, 2, 3, ... in the order they are opened, and no
\* line opens more than one.
RecordLifecycle ==
    /\ DOMAIN files = 1 .. (record - 1)
    /\ SelectSeq(outfile, IsFileLine) = [i \in 1 .. (record - 1) |-> <<"file", i>>]
    /\ pc # "data" =>
          Len(SelectSeq(SegmentLines, IsFileLine)) = (IF chunk_count = 0 THEN 0 ELSE 1)
    /\ pc \in {"line", "exit"} =>
          fpout = (IF chunk_count = 0 THEN 0 ELSE record - 1)
    /\ pc \notin {"line", "exit"} => fpout = 0

\* the second line is in its second chunk: record 1 was opened by the first
\* line, record 2 by this one
RecordLifecycleSeen ==
    /\ pc = "line"
    /\ nlines = 2
    /\ chunk_count = 2
    /\ fpout = 2
    /\ record = 3
    /\ SelectSeq(outfile, IsFileLine) = << <<"file", 1>>, <<"file", 2>> >>

\* the last thing printed is the framing error of PerLine.Process
FramingErrorPrinted ==
    /\ console # << >>
    /\ console[Len(console)][1] = "Error!"

\* the last thing printed is the error of DecodeChunk
ECCErrorPrinted ==
    /\ console # << >>
    /\ console[Len(console)][1] = "Error!!"

\* C11: once a segment has ended, by the end of its data line or by a
\* framing error, the record that was opened for it is closed: no record
\* is open outside the processing of a line.
RecordClosedAtSegmentEnd ==
    /\ pc \in {"time", "data"} => fpout = 0
    /\ (pc = "exit" /\ FramingErrorPrinted) => fpout = 0

\* C12: a framing error ends only the segment it is in: the run goes on to
\* the lines that follow, so it never stops at a framing error.
FramingErrorNotFatal == ~(pc = "exit" /\ FramingErrorPrinted)

\* C13: the error printed for an unrecoverable column names the chunk of
\* the segment and the column, 0 .. 31, of the codeword.
UnrecoverablePositionReported ==
    (pc = "exit" /\ ECCErrorPrinted) =>
        /\ Len(console[Len(console)]) = 3
        /\ console[Len(console)][2] = chunk_count
        /\ console[Len(console)][3] \in 0 .. (NumCols - 1)

\* the characters of the line d after its preamble that are "0" or "1"
BitsAfterPreamble(d) ==
    Cardinality({n \in 0 .. (ChunkLen * d.nchunks + d.tail - 1) : n \notin d.anom})

\* C14: at the end of a line that reached the preamble and had no error, the
\* chunks decoded are floor(B / 555), B being the "0" and "1" characters
\* after the preamble: the rows of a partial chunk are dropped, and neither
\* the "e" nor the end of the line counts as a bit of a row.
PartialChunkDiscarded ==
    (pc = "time" /\ nlines > 0 /\ seg.sync) =>
        chunk_count = BitsAfterPreamble(seg) \div ChunkLen

\* the character processed last is neither "0" nor "1"
NonBitProcessed ==
    /\ pc = "line"
    /\ c_count > 0
    /\ line[c_count] \notin {"0", "1"}

\* C15: a character other than "0" and "1" empties the sync window before
\* the preamble, and discards the row in progress after it: it is never
\* shifted into the row as a bit.
OnlyBitsAreBits ==
    NonBitProcessed =>
        /\ state = 0 => sync_pattern = << >>
        /\ state = 1 => (char_count = 0 /\ row = << >>)

IsZeroChar(c) == c = "0"

\* the "0" characters of the line d that come before its preamble
ZerosBeforePreamble(d) == d.zeros + Len(SelectSeq(d.pre, IsZeroChar))

\* C16: what is written as "zero" when the preamble is recognised is the
\* number of "0" characters of the segment before the preamble, the 25 of the
\* preamble not counted, and so it is never negative.
LeadingZeroMetric ==
    (pc \in {"line", "exit", "time"} /\ nlines > 0 /\ state = 1) =>
        /\ SelectSeq(SegmentLines, IsZeroLine) = << <<"zero", ZerosBeforePreamble(seg)>> >>
        /\ \A i \in 1 .. Len(outfile) : IsZeroLine(outfile[i]) => outfile[i][2] >= 0

\* the lines written to args.outfile for each data line read so far
LinesOfSegment(k) ==
    LET marks == TimeMarks
        from  == CHOOSE i \in marks : Cardinality({j \in marks : j <= i}) = k
        later == {j \in marks : j > from}
        to    == IF later = {} THEN Len(outfile)
                 ELSE (CHOOSE j \in later : \A o \in later : j <= o) - 1
    IN  SubSeq(outfile, from + 1, to)

\* C17: there is one file line for each record opened, no data line has more
\* than one zero line, and a line of N > 0 zeros that never reaches the
\* preamble has, once processed, exactly the line zero N.
ManifestCounts ==
    /\ Len(SelectSeq(outfile, IsFileLine)) = Cardinality(DOMAIN files)
    /\ Len(SelectSeq(outfile, IsFileLine)) = record - 1
    /\ \A k \in 1 .. Cardinality(TimeMarks) :
          Len(SelectSeq(LinesOfSegment(k), IsZeroLine)) <= 1
    /\ (pc = "time" /\ nlines > 0 /\ ~seg.sync /\ seg.zeros > 0) =>
          SegmentLines = << <<"zero", seg.zeros>> >>

\* a line of one zero and no preamble has been processed after a line that
\* opened a record and wrote its own zero line
ManifestCountsSeen ==
    /\ pc = "time"
    /\ nlines = 2
    /\ seg = Unsynced(1)
    /\ SegmentLines = << <<"zero", 1>> >>
    /\ Len(SelectSeq(outfile, IsFileLine)) = 1
    /\ Len(SelectSeq(outfile, IsZeroLine)) = 2

\* the offset in the line d of the first character after the preamble
RowsStart(d) == d.zeros + Len(d.pre) + SyncLen

\* the bit a character is shifted in as
BitOfChar(c) == IF c = "1" THEN 1 ELSE 0

\* the framer is past the preamble of the line
Framing == pc \in {"line", "exit"} /\ nlines > 0 /\ state = 1

\* C26: after the preamble the characters are taken 37 at a time, first
\* character as the top bit; every row of the chunk under assembly is the
\* low 32 bits of such a group of 37, and the top 5 bits of that group are
\* 11101 (compared each time a row has been taken and at an exit).
RowFraming ==
    Framing =>
        /\ (char_count = 0 \/ pc = "exit") => \A k \in 1 .. Len(row_array) :
              LET o == RowsStart(seg) + RowLen * (NumRows * chunk_count + k - 1)
              IN  /\ [p \in 1 .. 5 |-> BitOfChar(line[o + p])] = <<1, 1, 1, 0, 1>>
                  /\ row_array[k] = [j \in 1 .. NumCols |-> BitOfChar(line[o + 5 + j])]
        /\ pc = "line" =>
              /\ char_count = (c_count - RowsStart(seg)) % RowLen
              /\ Len(row) = char_count
              /\ row = [p \in 1 .. char_count |-> BitOfChar(line[c_count - char_count + p])]

\* 14 rows of the second chunk of a line have been collected
RowFramingSeen ==
    /\ pc = "line"
    /\ state = 1
    /\ chunk_count = 1
    /\ Len(row_array) = 14
    /\ char_count = 36
    /\ row_array[14][32] = BitOfChar(line[c_count - char_count])

\* the rows of 37 characters completed so far in the line
RowsCompleted == (c_count - RowsStart(seg)) \div RowLen

\* C27: between two characters the rows collected are row_count in number
\* and fewer than 15; the chunks decoded are the rows completed divided by
\* 15, so that DecodeChunk was called at every 15th row and with exactly 15
\* rows, the collection being empty again after it; when DecodeChunk exits,
\* it had been given 15 rows.
CompleteChunksOnly ==
    /\ (Framing /\ pc = "line") =>
          /\ Len(row_array) = row_count
          /\ row_count < NumRows
          /\ row_count = RowsCompleted % NumRows
          /\ chunk_count = RowsCompleted \div NumRows
          /\ (RowsCompleted % NumRows = 0 /\ char_count = 0) => row_array = << >>
    /\ (pc = "exit" /\ ECCErrorPrinted) =>
          /\ Len(row_array) = NumRows
          /\ row_count = NumRows

\* the 15th row has just been completed and decoded: one chunk, no rows
CompleteChunksOnlySeen ==
    /\ pc = "line"
    /\ state = 1
    /\ c_count = RowsStart(seg) + ChunkLen
    /\ chunk_count = 1
    /\ row_array = << >>
    /\ fpout # 0

\* chunk q of the line d has a column the table cannot correct
IsBadChunk(d, q) ==
    \E j \in 0 .. (NumCols - 1) : ECCTable[ChunkCode(SegChunk(d, q), j)][1] = Unrecoverable

BadChunks(d) == {q \in 0 .. (d.nchunks - 1) : IsBadChunk(d, q)}

\* C29: a record holds whole chunks only, 64 bytes each; a chunk with an
\* Unrecoverable column is never appended, not even the words of its good
\* columns, and no chunk after it is: when DecodeChunk exits, the record
\* holds the chunks before that one and nothing else, and no record was
\* opened if it was the first.
ChunkAtomicity ==
    /\ \A f \in DOMAIN files : Len(files[f]) % (2 * NumCols) = 0
    \* the chunk that was appended last (and so, each one appended)
    /\ (Framing /\ pc = "line" /\ chunk_count > 0 /\ row_count = 0 /\ char_count = 0
           /\ seg.anom = {}) =>
          ~IsBadChunk(seg, chunk_count - 1)
    /\ (pc = "exit" /\ ECCErrorPrinted) =>
          /\ IsBadChunk(seg, chunk_count)
          /\ IF chunk_count = 0
             THEN fpout = 0 /\ SelectSeq(SegmentLines, IsFileLine) = << >>
             ELSE /\ fpout \in DOMAIN files
                  /\ files[fpout] = ExpectedBytes(seg, chunk_count)

\* DecodeChunk has exited on the second chunk of a line: the record holds
\* the 64 bytes of the first
ChunkAtomicitySeen ==
    /\ pc = "exit"
    /\ ECCErrorPrinted
    /\ chunk_count = 1
    /\ BadChunks(seg) = {1}
    /\ Len(files[fpout]) = 64

\* the step writes a zero line
WritesZero ==
    /\ Len(outfile') = Len(outfile) + 1
    /\ outfile'[Len(outfile')][1] = "zero"

\* C37: while a line is scanned, state goes from 0 to 1 only and, once 1,
\* stays 1 to the end of the line: no character read in state 1, those of a
\* second preamble included, touches the sync window or the zero count or
\* writes a zero line; the step to state 1 starts with no row and no count;
\* and every call of Process starts with state 0, an empty sync window and
\* all counts 0.
SyncOncePerLine ==
    [][/\ (pc = "line" /\ state = 1) =>
             /\ state' = 1
             /\ sync_pattern' = sync_pattern
             /\ zero_count' = zero_count
             /\ ~WritesZero
       /\ (pc = "line" /\ state = 0 /\ state' # 0) =>
             /\ state' = 1
             /\ sync_pattern' = SyncPattern
             /\ WritesZero
             /\ row' = << >> /\ row_array' = << >>
             /\ char_count' = 0 /\ row_count' = 0 /\ chunk_count' = 0
       /\ (pc = "data" /\ pc' = "line") =>
             /\ state' = 0
             /\ sync_pattern' = << >>
             /\ zero_count' = 0 /\ counting_zeros'
             /\ c_count' = 0 /\ char_count' = 0
             /\ row_count' = 0 /\ chunk_count' = 0]_vars

\* the second line of the input holds two preambles: the characters of the
\* second were shifted into a row, which failed the prefix test at its 37th
\* character; one zero line was written for the line
SyncOncePerLineSeen ==
    /\ nlines = 2
    /\ seg.post = SyncPattern \o <<"e", "\n">>
    /\ state = 1
    /\ pc = "exit"
    /\ console = << <<"Error!", SyncLen + RowLen - 1>> >>
    /\ Len(row) = RowLen
    /\ char_count = RowLen
    /\ outfile[Len(outfile)] = <<"zero", 0>>
    /\ Len(SelectSeq(outfile, IsZeroLine)) <= 2

\* C38: in the manifest every zero line and every file line comes after a
\* time line, and every file line comes after a zero line with no time line
\* between the two: a segment that has a file line has its zero line before
\* it, and a segment without a zero line has no file line.
ManifestOrder ==
    \A i \in 1 .. Len(outfile) :
        /\ (IsZeroLine(outfile[i]) \/ IsFileLine(outfile[i])) =>
              \E k \in 1 .. (i - 1) : outfile[k][1] = "time"
        /\ IsFileLine(outfile[i]) =>
              \E j \in 1 .. (i - 1) :
                  /\ IsZeroLine(outfile[j])
                  /\ \A k \in j .. i : outfile[k][1] # "time"

\* the first segment wrote a zero line at its end and no file line, the
\* second its zero line and then its file line
ManifestOrderSeen ==
    /\ Len(outfile) = 7
    /\ outfile[3] = <<"time", 1>>
    /\ outfile[4] = <<"zero", 1>>
    /\ outfile[5] = <<"time", 2>>
    /\ IsZeroLine(outfile[6])
    /\ outfile[7] = <<"file", 1>>

-----------------------------------------------------------------------------
(* Properties of PerTransition, checked under SpecPulse.                   *)

\* an interval has been classified, with 100 samples per bit
Classified == interval # "" /\ nominal_samples_per_bit = 100 * 1000

\* C8, as stated: with 100 samples per bit and the 75% tolerance, a delta of
\* exactly 25.0 samples is Short and a delta of 24.999 is NarrowAnomaly.
ShortFromTwentyFive ==
    Classified =>
        /\ delta = 25000 => interval = "S"
        /\ delta = 24999 => interval = "s"

\* C8, as the code has it: with 100 samples per bit and the 75% tolerance
\* the lower edge of Short is (2 - 0.75) * 100 / 4 = 31.25 samples, inclusive:
\* a delta of 31.25 up to 68.75 is Short, any delta below 31.25 is
\* NarrowAnomaly, 31.249, 25.0 and 24.999 among them.
ClassificationBoundary ==
    Classified =>
        /\ (31250 <= delta /\ delta <= 68750) <=> interval = "S"
        /\ delta < 31250 <=> interval = "s"
        /\ delta \in {24999, 25000, 31249} => interval = "s"
        /\ delta = 31250 => interval = "S"

\* a transition 25.0 samples after the one before it has been classified
ClassificationBoundarySeen ==
    /\ Classified
    /\ delta = 25000
    /\ interval = "s"
    /\ last_ifrac = ifrac

\* the entries of the output that write a time line
IsTimeWrite(w) == w[1] \in {"time ", "\ntime "}

IsDataWrite(w) == w[1] = "data "

\* C18: every time line written is the start of a segment: the start of the
\* data line of the segment is written right after it, so there are as many
\* time lines as data lines.
TimeLineStartsSegment ==
    /\ \A i \in 1 .. Len(pulse_out) :
          IsTimeWrite(pulse_out[i]) =>
              /\ i < Len(pulse_out)
              /\ IsDataWrite(pulse_out[i + 1])
    /\ Len(SelectSeq(pulse_out, IsTimeWrite)) = Len(SelectSeq(pulse_out, IsDataWrite))

\* C21: with t = 0.75 every interval is put in exactly one of the five
\* bands, the edges of Long and of Short being inside their bands:
\* delta > (4+t)*spb/4 wide, (4-t)*spb/4 <= delta <= (4+t)*spb/4 Long,
\* (2+t)*spb/4 < delta < (4-t)*spb/4 mid, (2-t)*spb/4 <= delta <= (2+t)*spb/4
\* Short, delta < (2-t)*spb/4 narrow (all compared times 400).
FiveBands ==
    interval # "" =>
        LET spb == nominal_samples_per_bit
            d   == 400 * delta
        IN  /\ interval \in {"w", "L", "m", "S", "s"}
            /\ interval = "w" <=> d > 475 * spb
            /\ interval = "L" <=> (325 * spb <= d /\ d <= 475 * spb)
            /\ interval = "m" <=> (275 * spb < d /\ d < 325 * spb)
            /\ interval = "S" <=> (125 * spb <= d /\ d <= 275 * spb)
            /\ interval = "s" <=> d < 125 * spb

\* an interval of exactly (4-t)*spb/4 = 81.25 samples was classified Long
FiveBandsSeen ==
    /\ Classified
    /\ delta = 81250
    /\ interval = "L"

\* what the step wrote to args.outfile
Emitted == SubSeq(pulse_out', Len(pulse_out) + 1, Len(pulse_out'))

\* the step is a call of Process
EventStep == nevents' = nevents + 1

\* the step classified an interval
ClassifyStep == EventStep /\ ValidEnergy(energy') /\ last_ifrac # NoIfrac

\* C22: when a second short interval is expected, a Short interval writes "1"
\* and any other interval writes its own letter (nothing is written in
\* measure mode); the flag is cleared in both cases; and a "1" is only ever
\* written for a Short interval that follows a Short interval.
SecondShort ==
    [][/\ (ClassifyStep /\ expecting_short) =>
             /\ ~expecting_short'
             /\ interval' \in {"w", "L", "m", "S", "s"}
             /\ ~measure =>
                   Emitted = << <<IF interval' = "S" THEN "1" ELSE interval'>> >>
       /\ (\E k \in 1 .. Len(Emitted) : Emitted[k] = <<"1">>) =>
             /\ ClassifyStep
             /\ expecting_short
             /\ interval = "S"
             /\ interval' = "S"]_vars

\* a "1" has been written for the second of two Short intervals
SecondShortSeen ==
    /\ ~measure
    /\ interval = "S"
    /\ ~expecting_short
    /\ pulse_out # << >>
    /\ pulse_out[Len(pulse_out)] = <<"1">>

\* C23: when no second short interval is expected, a Long interval writes
\* "0", a Short interval sets the flag and writes nothing, any other
\* interval writes its letter at once and leaves the flag clear (nothing is
\* written in measure mode); the segment stays open after an anomaly, so the
\* next interval is measured from it.
FirstInterval ==
    [][(ClassifyStep /\ ~expecting_short) =>
          /\ interval' = "L" =>
                /\ ~expecting_short'
                /\ ~measure => Emitted = << <<"0">> >>
          /\ interval' = "S" =>
                /\ expecting_short'
                /\ Emitted = << >>
          /\ interval' \in {"w", "m", "s"} =>
                /\ ~expecting_short'
                /\ ~measure => Emitted = << <<interval'>> >>
          /\ last_ifrac' = ifrac']_vars

\* a "0" has been written after an anomaly letter in the same segment
FirstIntervalSeen ==
    /\ ~measure
    /\ interval = "L"
    /\ Len(pulse_out) = 4
    /\ pulse_out[3] = <<"s">>
    /\ pulse_out[4] = <<"0">>

IsGapWrite(w) == w = <<"e">>

\* C24: an event with energy below the threshold writes "e" exactly when a
\* segment is open, and once; it leaves no segment open and the flag clear;
\* and the first event with valid energy that follows starts a segment and
\* classifies nothing.
GapHandling ==
    [][/\ (EventStep /\ ~ValidEnergy(energy')) =>
             /\ Len(SelectSeq(Emitted, IsGapWrite))
                    = (IF last_ifrac # NoIfrac THEN 1 ELSE 0)
             /\ last_ifrac' = NoIfrac
             /\ ~expecting_short'
       /\ (EventStep /\ ValidEnergy(energy') /\ last_ifrac = NoIfrac) =>
             /\ last_ifrac' = ifrac'
             /\ interval' = ""
             /\ SelectSeq(Emitted, IsDataWrite) = << <<"data ">> >>
             /\ \A k \in 1 .. Len(Emitted) : Len(Emitted[k]) = 1 => Emitted[k] = <<"data ">>]_vars

\* two events of low energy after an open segment: one "e", and the
\* segment that follows has started
GapHandlingSeen ==
    /\ nevents = 4
    /\ Len(SelectSeq(pulse_out, IsGapWrite)) = 1
    /\ Len(SelectSeq(pulse_out, IsDataWrite)) = 2
    /\ last_ifrac = ifrac
    /\ interval = ""

\* C36: expecting_short is set only while last_ifrac is set; an event of
\* low energy that arrives while a Short interval is pending writes "e" and
\* the time line and nothing for the Short interval, and clears the flag;
\* and the first interval classified in a segment finds the flag clear.
ShortPendingOnlyInSegment ==
    [][/\ expecting_short => last_ifrac # NoIfrac
       /\ expecting_short' => last_ifrac' # NoIfrac
       /\ (EventStep /\ ~ValidEnergy(energy') /\ expecting_short) =>
             /\ Emitted = << <<"e">>, <<"\ntime ", ifrac'>> >>
             /\ ~expecting_short'
             /\ last_ifrac' = NoIfrac
       /\ (ClassifyStep /\ interval = "") =>
             /\ ~expecting_short
             /\ \A k \in 1 .. Len(Emitted) : Emitted[k] # <<"1">>]_vars

\* a Short interval was pending when the gap came: the segment wrote no
\* symbol but "e"; a segment has started after it and its first interval,
\* a Short one, set the flag again
ShortPendingOnlyInSegmentSeen ==
    /\ ~measure
    /\ nevents = 5
    /\ Len(pulse_out) = 6
    /\ pulse_out[3] = <<"e">>
    /\ IsDataWrite(pulse_out[6])
    /\ interval = "S"
    /\ expecting_short

-----------------------------------------------------------------------------
(* Properties of PerSample, checked under SpecSample.                      *)

\* the energy window is full and the samples shifted into the DC window
\* have reached its length
WindowReady ==
    /\ smp_i > 0
    /\ Len(sample_buffer) = energy_window
    /\ smp_i - 1 > Len(dcwindow_samples)

\* the last two samples of the window are on different sides of 0, a sample
\* of exactly 0 being on the positive side
SignChanged ==
    /\ Len(sample_buffer) >= 2
    /\ (sample_buffer[Len(sample_buffer) - 1] < 0) # (sample_buffer[Len(sample_buffer)] < 0)

\* max - min over the window, times SampleScale
WindowEnergy == SeqMax(sample_buffer) - SeqMin(sample_buffer)

\* C19 as stated: an event reaches PerTransition.Process only if the energy
\* of the window is at least the threshold and the sign changed.
EventOnlyAboveThreshold ==
    handed # << >> =>
        /\ handed[1] >= energy_threshold * SampleScale
        /\ SignChanged

\* C19: once the window is ready, an event is handed to PerTransition.Process
\* exactly when the previous and the current sample are on different sides of
\* 0 (zero counting as positive), whatever the energy of the window; the
\* event carries that energy, max - min over the window, and it is
\* PerTransition.Process that tells a transition from a low energy event.
EventAtEverySignChange ==
    /\ (handed # << >>) <=> (WindowReady /\ SignChanged)
    /\ handed # << >> => handed[1] = WindowEnergy

\* an event was handed over for a sign change in a window whose energy is
\* below the threshold
EventAtEverySignChangeSeen ==
    /\ handed # << >>
    /\ WindowReady /\ SignChanged
    /\ handed[1] < energy_threshold * SampleScale

\* C25: whenever the energy of the window is below the threshold, sign
\* change or not, the event reaches PerTransition.Process and closes the
\* segment: after such a sample no segment is open.
DropoutClosesSegment ==
    (WindowReady /\ WindowEnergy < energy_threshold * SampleScale) =>
        last_ifrac = NoIfrac

\* C30: the energy buffer never holds more than W = ceil(samples_per_bit *
\* 10) samples, and an event reaches PerTransition.Process only for a sample
\* at which the buffer holds exactly W samples and, with a DC window of
\* length D in use, whose un-shifted index is above D; nothing has been
\* written before that.
StartupGuard ==
    /\ energy_window = CeilDiv(10 * nominal_samples_per_bit, 1000)
    /\ Len(sample_buffer) <= energy_window
    /\ handed # << >> =>
          /\ Len(sample_buffer) = energy_window
          /\ dcwindow_is_active => (smp_i - 1) > Len(dcwindow_samples)
    /\ (smp_i < energy_window \/ (dcwindow_is_active /\ smp_i - 1 <= Len(dcwindow_samples))) =>
          (nevents = 0 /\ pulse_out = << >>)

\* with a DC window of 4 samples the first event was handed over for the
\* sample of index 5, the energy buffer long since full
StartupGuardSeen ==
    /\ Len(dcwindow_samples) = 4
    /\ smp_i = 6
    /\ handed # << >>
    /\ nevents = 1
    /\ Len(sample_buffer) = energy_window

-----------------------------------------------------------------------------
(* Properties of MCMemoryMap, checked under SpecMem.                       *)

\* C20: when self._canOverwrite is False and forceOverwrite is not set, a
\* writeWord of a different value to a WRITTEN address ends in errorExit and
\* leaves the word and its state as they were; a writeWord to an EMPTY
\* address, or of the value already stored, succeeds and leaves the address
\* WRITTEN with that value; and no write made without forceOverwrite changes
\* a word that is WRITTEN.
OverwriteProtected ==
    [][(~mem_canOverwrite /\ ~mem_op'.forceOverwrite) =>
          /\ mem_op'.op = "writeWord" =>
                IF /\ mem_state[mem_op'.address] = STATE_WRITTEN
                   /\ mem_data[mem_op'.address] # mem_op'.dataWord
                THEN /\ mem_pc' = "exit"
                     /\ mem_data' = mem_data
                     /\ mem_state' = mem_state
                ELSE /\ mem_pc' = "run"
                     /\ mem_data' = [mem_data EXCEPT ![mem_op'.address] = mem_op'.dataWord]
                     /\ mem_state' = [mem_state EXCEPT ![mem_op'.address] = STATE_WRITTEN]
          /\ \A a \in Addresses :
                mem_state[a] = STATE_WRITTEN =>
                    /\ mem_data'[a] = mem_data[a]
                    /\ mem_state'[a] = STATE_WRITTEN]_vars

\* a writeWord of another value to a WRITTEN address has ended in errorExit,
\* the word still as it was
OverwriteProtectedSeen ==
    /\ mem_pc = "exit"
    /\ ~mem_canOverwrite
    /\ mem_op.op = "writeWord"
    /\ ~mem_op.forceOverwrite
    /\ mem_state[mem_op.address] = STATE_WRITTEN
    /\ mem_data[mem_op.address] # mem_op.dataWord

-----------------------------------------------------------------------------
(* Properties of alignMemoryBlock and of the BIN+CFG pair, under SpecMap.  *)

\* the step is a call of alignMemoryBlock
AlignStep == map_pc = "fill" /\ map_pc' = "aligned"

\* a is WRITTEN after the call exactly when the block of 2^blockSize
\* addresses that holds a had a WRITTEN address before it
BlocksMarked(blockSize) ==
    \A a \in AllAddresses :
        mem_state'[a] = STATE_WRITTEN <=>
            \E b \in AllAddresses :
                /\ b \div 2^blockSize = a \div 2^blockSize
                /\ mem_state[b] = STATE_WRITTEN

\* what alignMemoryBlock leaves in self._state and self._data
AlignMarksBlocks ==
    [][AlignStep =>
          /\ mem_data' = mem_data
          /\ IF mem_op'.blockSize <= 1
             THEN mem_state' = mem_state
             ELSE BlocksMarked(mem_op'.blockSize)]_vars

\* C32: a call alignMemoryBlock(blockSize) with 2 <= blockSize <= 16 returns
\* normally, and after it an address is WRITTEN exactly when its block of
\* 2^blockSize addresses held a WRITTEN address before; the data words are
\* unchanged; with blockSize <= 1 nothing changes.
AlignCompletes ==
    [][AlignStep =>
          /\ mem_data' = mem_data
          /\ IF mem_op'.blockSize <= 1
             THEN mem_state' = mem_state /\ mem_pc' = "run"
             ELSE BlocksMarked(mem_op'.blockSize) /\ mem_pc' = "run"]_vars

\* the WRITTEN addresses below a
WrittenBelow(a) == {b \in AllAddresses : b < a /\ mem_state[b] = STATE_WRITTEN}

\* the words of the WRITTEN addresses from a on, in address order, two
\* bytes each, the high byte first
RECURSIVE WrittenBytes(_)
WrittenBytes(a) ==
    IF a >= SIZE THEN << >>
    ELSE (IF mem_state[a] = STATE_WRITTEN
          THEN <<mem_data[a] \div 256, mem_data[a] % 256>> ELSE << >>)
         \o WrittenBytes(a + 1)

\* a .. a+n-1 is a maximal run of WRITTEN addresses
MaximalRun(a, n) ==
    /\ n >= 1
    /\ a + n - 1 \in AllAddresses
    /\ \A b \in a .. (a + n - 1) : mem_state[b] = STATE_WRITTEN
    /\ (a - 1) \in AllAddresses => mem_state[a - 1] # STATE_WRITTEN
    /\ (a + n) \in AllAddresses => mem_state[a + n] # STATE_WRITTEN

\* C33: the BIN file holds the WRITTEN words in ascending address order;
\* for every maximal run of n WRITTEN addresses from a on, the last address
\* of the memory included, there is a mapping line $s - $e = $a with s the
\* number of words before the run and e - s + 1 = n; and readFiles on the
\* pair leaves the same words WRITTEN at the same addresses.
MappingRoundTrip ==
    /\ map_pc \in {"written", "read"} =>
          /\ bin_file = WrittenBytes(0)
          /\ \A a \in AllAddresses : \A n \in 1 .. SIZE :
                MaximalRun(a, n) =>
                    \E k \in 1 .. Len(cfg_file) :
                        /\ ParseHex(cfg_file[k].at) = a
                        /\ ParseHex(cfg_file[k].from) = Cardinality(WrittenBelow(a))
                        /\ ParseHex(cfg_file[k].to) - ParseHex(cfg_file[k].from) + 1 = n
    /\ map_pc = "read" =>
          /\ rd_map.pc = "run"
          /\ rd_map.state = mem_state
          /\ rd_map.data = mem_data

\* the same, for a memory whose last address is EMPTY and that holds a word
MappingRoundTripBelowTop ==
    (mem_state[SIZE - 1] = STATE_EMPTY /\ \E a \in AllAddresses : mem_state[a] = STATE_WRITTEN)
        => MappingRoundTrip

-----------------------------------------------------------------------------
(* Properties of KCFile.Handle of kctap2wav, checked under SpecTap.        *)

\* the step is call tap_h of Handle
HandleStep == tap_h \in 0 .. 7 /\ tap_h' = tap_h + 1

\* the channel of the call: its byte, its sign and its samples before and after
CallByte   == IF tap_h % 2 = 0 THEN rawdata[1] ELSE rawdata[2]
SignBefore == IF tap_h % 2 = 0 THEN sign0 ELSE sign1
SignAfter  == IF tap_h % 2 = 0 THEN sign0' ELSE sign1'
DataBefore == IF tap_h % 2 = 0 THEN data0 ELSE data1
DataAfter  == IF tap_h % 2 = 0 THEN data0' ELSE data1'

\* the two bits of the byte the call is made for: 7 and 6, 5 and 4, ...
CallPresent == (CallByte \div 2^(7 - 2 * (tap_h \div 2))) % 2
CallBit     == (CallByte \div 2^(6 - 2 * (tap_h \div 2))) % 2

-----------------------------------------------------------------------------
(* Properties of kcverify, checked under SpecVerify.                       *)

\* the line is leading zeros, the preamble and whole chunks with at most
\* one bit flipped in a column
WholeChunks(d) ==
    /\ d.sync /\ d.pre = << >> /\ d.tail = 0 /\ d.nchunks >= 1
    /\ d.badrows = {} /\ d.anom = {}
    /\ \A c \in Columns : d.mask[c] = 0 \/ \E b \in 0 .. (NumBits - 1) : d.mask[c] = 2^b

\* a run of Process has returned
VerifyDone == pc = "time" /\ v_pass \in {1, 2}

\* the character written for bit j of row i of chunk q (all from 0)
WrittenAt(q, i, j) ==
    outfile[seg.zeros + SyncLen + q * ChunkLen + i * RowLen + 5 + j + 1]

\* C39: for a line of leading zeros, the preamble and whole chunks with at
\* most one bit flipped per column, kcverify writes the zeros, the preamble
\* and, for each chunk, 15 rows of 11101 and 32 bits, bit j of row i being
\* bit (14-i) of the codeword column j was built from; and a second run on
\* the line written writes the same line again and fixes no bit.
VerifyIdempotent ==
    /\ (v_pass \in {1, 2} /\ WholeChunks(seg)) => pc # "exit"
    /\ (VerifyDone /\ WholeChunks(seg)) =>
           /\ Len(outfile) = seg.zeros + SyncLen + seg.nchunks * ChunkLen + 1
           /\ SubSeq(outfile, 1, seg.zeros + SyncLen) = Zeros(seg.zeros) \o SyncPattern
           /\ outfile[Len(outfile)] = "\n"
           /\ \A q \in 0 .. (seg.nchunks - 1) : \A i \in 0 .. (NumRows - 1) :
                 /\ SubSeq(outfile, seg.zeros + SyncLen + q * ChunkLen + i * RowLen + 1,
                                    seg.zeros + SyncLen + q * ChunkLen + i * RowLen + 5)
                       = <<"1", "1", "1", "0", "1">>
                 /\ \A j \in 0 .. (NumCols - 1) :
                       WrittenAt(q, i, j) =
                           (IF (CodeTable[ChunkWord(SegChunk(seg, q), j)] \div 2^(14 - i)) % 2 = 1
                            THEN "1" ELSE "0")
           /\ v_pass = 2 =>
                 /\ outfile = v_first
                 /\ \A k \in 1 .. Len(console) : console[k][1] # "Fixed Bit"

\* the second chunk of the line had one bit flipped in every column: the
\* first run fixed 32 bits, the second run has written the same line again
VerifyIdempotentSeen ==
    /\ VerifyDone
    /\ v_pass = 2
    /\ seg = [Clean(0, MaxChunks) EXCEPT !.flipchunk = 1, !.mask = FlipEvery(3)]
    /\ chunk_count = MaxChunks
    /\ outfile = v_first
    /\ console = << <<"Zero Count =", 0>> >>

=============================================================================
